---- MODULE Spec2Model ----
(***************************************************************************)
(* Model of the failure-pattern-discovery engine (equipment_monitoring,    *)
(* module2): the State value type, the Graph class, build_graph, the       *)
(* search strategies bfs, dfs and a_star, and discover_failure_sequences.  *)
(*                                                                         *)
(* pc    : the position of the running program ("api", "bfs", "dfs",       *)
(*         "a_star", "build", "discover", "done")                          *)
(* graph : the Graph object (nodes, edges, failure_states,                 *)
(*         state_to_records)                                               *)
(* call  : the arguments of the call in progress (or of the last call)     *)
(* loc   : the local variables of the function in progress                 *)
(* ret   : the value returned by the last call that has returned           *)
(***************************************************************************)
EXTENDS Integers, Sequences, FiniteSets, TLC

VARIABLES pc, graph, call, loc, ret

vars == <<pc, graph, call, loc, ret>>

\* Python's None.  A string and a list of the same length are compared
\* element by element, so the string is longer than any path a search of the
\* model returns.
None == "NoneType: None"

(***************************************************************************)
(* Bounds of the model.                                                    *)
(***************************************************************************)
\* the Graph API specification adds at most this many edges
MaxApiEdges == 3
\* the searched graphs have at most this many edges
MaxEdges == 3
\* the graphs a_star alone is run on have at most this many edges
MaxAStarEdges == 3
\* build_graph is given at most this many records of the two-machine universe
MaxRecords == 3
\* the one-record-per-machine batches have at most this many machines
MaxSimMachines == 5
\* extract_sequences is given at most this many paths
MaxPaths == 4
\* rank_warning_signs is given at most this many hand-made sequences
MaxSequences == 3
\* the boundaries of the binning schemes get_bin is called on are in
\* 0..MaxBoundary
MaxBoundary == 4
\* a batch handed to build_graph after a configuration file is loaded has
\* at most MaxConfigRecords records
MaxConfigRecords == 2
\* the failure state of a fan graph has at most MaxFanStarts neighbors
MaxFanStarts == 5
\* a chain graph has at most MaxChain states before its failure state
MaxChain == 10
\* max_depth ranges over 0..MaxDepthBound
MaxDepthBound == 3
\* bfs max_paths ranges over 1..MaxPathsBound
MaxPathsBound == 2

(***************************************************************************)
(* Sequence helpers.                                                       *)
(***************************************************************************)
Range(s) == {s[i] : i \in 1..Len(s)}

Last(s) == s[Len(s)]

Front(s) == SubSeq(s, 1, Len(s) - 1)

Reverse(s) == [i \in 1..Len(s) |-> s[Len(s) + 1 - i]]

RECURSIVE SumLen(_, _)
\* sum(len(v) for v in d.values()) over the keys ks of dict d
SumLen(d, ks) ==
    IF ks = {} THEN 0
    ELSE LET k == CHOOSE x \in ks : TRUE
         IN Len(d[k]) + SumLen(d, ks \ {k})

(***************************************************************************)
(* class State: an object (oid is its identity) holding machine_id and     *)
(* sensor_bins; __eq__ and __hash__ look at the two fields only.           *)
(***************************************************************************)
State(oid, machine_id, sensor_bins) ==
    [oid |-> oid, machine_id |-> machine_id, sensor_bins |-> sensor_bins]

\* State.__eq__ by object identity: what Python does when __eq__ is not defined
StateEqIdentity(s1, s2) == s1.oid = s2.oid

\* State.__eq__
StateEq(s1, s2) ==
    s1.machine_id = s2.machine_id /\ s1.sensor_bins = s2.sensor_bins

\* State.__hash__: hash((machine_id, sensor_bins)), kept as the hashed tuple
StateHash(s) == <<s.machine_id, s.sensor_bins>>

\* `s in c` for a set, a dict's keys or the elements of a list of States:
\* equal hash and __eq__
InSet(s, c) == \E x \in c : StateHash(x) = StateHash(s) /\ StateEq(x, s)

\* the element of c that equals s (the object a set or dict already holds)
Existing(s, c) == CHOOSE x \in c : StateHash(x) = StateHash(s) /\ StateEq(x, s)

\* set.add(s): an equal element already in the set is kept
SetAdd(c, s) == IF InSet(s, c) THEN c ELSE c \cup {s}

\* d[s] for a dict keyed by States
DictGet(d, s) == d[Existing(s, DOMAIN d)]

\* d[s] = v for a dict keyed by States
DictPut(d, s, v) ==
    IF InSet(s, DOMAIN d)
    THEN [d EXCEPT ![Existing(s, DOMAIN d)] = v]
    ELSE [k \in DOMAIN d \cup {s} |-> IF k = s THEN v ELSE d[k]]

(***************************************************************************)
(* class Graph.                                                            *)
(***************************************************************************)
\* Graph.__init__
EmptyGraph ==
    [nodes |-> {}, edges |-> <<>>, failure_states |-> {},
     state_to_records |-> <<>>]

\* Graph.add_node
add_node(g, state) ==
    [g EXCEPT
        !.nodes = SetAdd(g.nodes, state),
        !.edges = IF InSet(state, DOMAIN g.edges) THEN g.edges
                  ELSE DictPut(g.edges, state, <<>>),
        !.state_to_records =
            IF InSet(state, DOMAIN g.state_to_records) THEN g.state_to_records
            ELSE DictPut(g.state_to_records, state, <<>>)]

\* Graph.add_edge without the "to_state not in self.edges[from_state]" test
add_edge_nodedup(g, from_state, to_state) ==
    LET g2 == add_node(add_node(g, from_state), to_state)
    IN [g2 EXCEPT !.edges =
            DictPut(g2.edges, from_state,
                    Append(DictGet(g2.edges, from_state), to_state))]

\* Graph.add_edge
add_edge(g, from_state, to_state) ==
    LET g2 == add_node(add_node(g, from_state), to_state)
        succ == DictGet(g2.edges, from_state)
    IN IF InSet(to_state, Range(succ)) THEN g2
       ELSE [g2 EXCEPT !.edges =
                DictPut(g2.edges, from_state, Append(succ, to_state))]

\* Graph.mark_failure_state without "self.failure_states.add(state)"
mark_failure_state_node_only(g, state) == add_node(g, state)

\* Graph.mark_failure_state
mark_failure_state(g, state) ==
    LET g2 == add_node(g, state)
    IN [g2 EXCEPT !.failure_states = SetAdd(g2.failure_states, state)]

\* Graph.get_neighbors: self.edges.get(state, [])
get_neighbors(g, state) ==
    IF InSet(state, DOMAIN g.edges) THEN DictGet(g.edges, state) ELSE <<>>

\* Graph.is_failure_state
is_failure_state(g, state) == InSet(state, g.failure_states)

\* sum(len(neighbors) for neighbors in g.edges.values())
TotalEdges(g) == SumLen(g.edges, DOMAIN g.edges)

(***************************************************************************)
(* SpecGraph: a caller drives the Graph API on an empty Graph.  The State  *)
(* objects it passes include two distinct objects with the same value.     *)
(* loc holds the Graph as it was before the last call.                     *)
(***************************************************************************)
ApiObjs ==
    { State(1, "MACHINE_001", <<"low", "low">>),
      State(2, "MACHINE_001", <<"medium", "low">>),
      State(3, "MACHINE_001", <<"low", "low">>) }

InitGraph ==
    /\ pc = "api"
    /\ graph = EmptyGraph
    /\ call = [op |-> "Graph"]
    /\ loc = EmptyGraph
    /\ ret = None

ApiAddNode ==
    /\ pc = "api"
    /\ \E s \in ApiObjs :
        /\ graph' = add_node(graph, s)
        /\ call' = [op |-> "add_node", state |-> s]
    /\ loc' = graph
    /\ UNCHANGED <<pc, ret>>

ApiAddEdge ==
    /\ pc = "api"
    /\ \E a \in ApiObjs, b \in ApiObjs :
        /\ TotalEdges(add_edge(graph, a, b)) <= MaxApiEdges
        /\ graph' = add_edge(graph, a, b)
        /\ call' = [op |-> "add_edge", from_state |-> a, to_state |-> b]
    /\ loc' = graph
    /\ UNCHANGED <<pc, ret>>

ApiMarkFailure ==
    /\ pc = "api"
    /\ \E s \in ApiObjs :
        /\ graph' = mark_failure_state(graph, s)
        /\ call' = [op |-> "mark_failure_state", state |-> s]
    /\ loc' = graph
    /\ UNCHANGED <<pc, ret>>

NextGraph == ApiAddNode \/ ApiAddEdge \/ ApiMarkFailure

SpecGraph == InitGraph /\ [][NextGraph]_vars

\* no list holds two elements that are equal as States
NoDupStates(s) ==
    \A i \in 1..Len(s), j \in 1..Len(s) : i # j => ~StateEq(s[i], s[j])

\* C4: after any sequence of add_node, add_edge and mark_failure_state calls
\* on an empty Graph, every source and target of an edge and every failure
\* state is in nodes, no successor list holds the same state twice, and
\* repeating add_edge(a, b) leaves a's successor list unchanged.
C4_GraphInvariant ==
    pc = "api" =>
        /\ \A k \in DOMAIN graph.edges :
            /\ InSet(k, graph.nodes)
            /\ \A t \in Range(graph.edges[k]) : InSet(t, graph.nodes)
            /\ NoDupStates(graph.edges[k])
        /\ \A f \in graph.failure_states : InSet(f, graph.nodes)
        /\ call.op = "add_edge" =>
            /\ InSet(call.to_state, Range(get_neighbors(graph, call.from_state)))
            /\ get_neighbors(add_edge(graph, call.from_state, call.to_state),
                             call.from_state)
                 = get_neighbors(graph, call.from_state)
            /\ InSet(call.to_state, Range(get_neighbors(loc, call.from_state)))
                 => get_neighbors(graph, call.from_state)
                      = get_neighbors(loc, call.from_state)

\* C4 witness: add_edge(a, b) was just repeated with a distinct but equal
\* target object on a graph that has edges and a failure state
C4_Witness ==
    /\ pc = "api"
    /\ call.op = "add_edge"
    /\ InSet(call.to_state, Range(get_neighbors(loc, call.from_state)))
    /\ call.to_state \notin Range(get_neighbors(loc, call.from_state))
    /\ graph.failure_states # {}
    /\ TotalEdges(graph) >= 2

(***************************************************************************)
(* search.py: SearchNode, the heapq priority queue, the heuristics.        *)
(***************************************************************************)
\* SearchNode.__init__
SearchNode(state, path, cost, heuristic_cost) ==
    [state |-> state, path |-> path, cost |-> cost,
     heuristic_cost |-> heuristic_cost]

\* SearchNode.total_cost
total_cost(node) == node.cost + node.heuristic_cost

\* SearchNode.__lt__ with the comparison turned round
NodeGt(a, b) == total_cost(a) > total_cost(b)

\* SearchNode.__lt__
NodeLt(a, b) == total_cost(a) < total_cost(b)

RECURSIVE siftdown(_, _, _, _)
\* heapq._siftdown(heap, startpos, pos), newitem = heap[pos]; 0-based positions
siftdown(heap, startpos, pos, newitem) ==
    IF pos > startpos
    THEN LET parentpos == (pos - 1) \div 2
             parent == heap[parentpos + 1]
         IN IF NodeLt(newitem, parent)
            THEN siftdown([heap EXCEPT ![pos + 1] = parent],
                          startpos, parentpos, newitem)
            ELSE [heap EXCEPT ![pos + 1] = newitem]
    ELSE [heap EXCEPT ![pos + 1] = newitem]

\* heapq.heappush(heap, item)
heappush(heap, item) ==
    LET h == Append(heap, item)
    IN siftdown(h, 0, Len(h) - 1, item)

RECURSIVE siftup_loop(_, _, _)
\* the while loop of heapq._siftup: the smaller child moves up until a leaf
\* is reached; gives <<heap, pos>>
siftup_loop(heap, pos, endpos) ==
    LET childpos == 2 * pos + 1
        rightpos == childpos + 1
        c == IF rightpos < endpos
                /\ ~NodeLt(heap[childpos + 1], heap[rightpos + 1])
             THEN rightpos ELSE childpos
    IN IF childpos < endpos
       THEN siftup_loop([heap EXCEPT ![pos + 1] = heap[c + 1]], c, endpos)
       ELSE <<heap, pos>>

\* heapq._siftup(heap, pos)
siftup(heap, pos) ==
    LET newitem == heap[pos + 1]
        r == siftup_loop(heap, pos, Len(heap))
    IN siftdown(r[1], pos, r[2], newitem)

\* heapq.heappop(heap): the popped item and the heap left
heappop(heap) ==
    LET lastelt == Last(heap)
        rest == Front(heap)
    IN IF rest # <<>>
       THEN [item |-> rest[1], heap |-> siftup([rest EXCEPT ![1] = lastelt], 0)]
       ELSE [item |-> lastelt, heap |-> <<>>]

\* the goal test every caller of the searches passes: graph.is_failure_state
goal_test(g, state) == is_failure_state(g, state)

\* heuristic_time_to_failure
heuristic_time_to_failure(state, g, failure_states) ==
    IF InSet(state, failure_states) THEN 0 ELSE 1

\* sum(1 for s1, s2 in zip(bins1, bins2) if s1 != s2)
CountDiff(bins1, bins2) ==
    LET n == IF Len(bins1) < Len(bins2) THEN Len(bins1) ELSE Len(bins2)
    IN Cardinality({i \in 1..n : bins1[i] # bins2[i]})

\* heuristic_sensor_distance
heuristic_sensor_distance(state, g, failure_states) ==
    IF InSet(state, failure_states) THEN 0
    ELSE IF failure_states = {} THEN 10
    ELSE LET ds == {CountDiff(state.sensor_bins, f.sensor_bins) :
                      f \in {x \in failure_states :
                               x.machine_id = state.machine_id}}
         IN IF ds = {} THEN 10
            ELSE CHOOSE d \in ds : \A e \in ds : d <= e

\* the heuristic argument of a_star, chosen by name
heuristic(name, state, g, failure_states) ==
    IF name = "sensor_distance"
    THEN heuristic_sensor_distance(state, g, failure_states)
    ELSE heuristic_time_to_failure(state, g, failure_states)

\* the depth test of bfs, dfs and a_star written with > and one too many
DepthLimitLoose(depth, max_depth) == depth > max_depth + 1

\* "if depth >= max_depth: continue"
DepthLimit(depth, max_depth) == depth >= max_depth

\* Children with the neighbor put in the place of the path's last state
\* ("node.path[:-1] + [neighbor]")
ChildrenReplaceLast(node, neighbors) ==
    [i \in 1..Len(neighbors) |->
        SearchNode(neighbors[i], Append(Front(node.path), neighbors[i]), 0, 0)]

\* the nodes bfs and dfs make for the neighbors of node, in neighbor order
Children(node, neighbors) ==
    [i \in 1..Len(neighbors) |->
        SearchNode(neighbors[i], Append(node.path, neighbors[i]), 0, 0)]

(***************************************************************************)
(* bfs: loc = [paths, queue, visited_at_depth].                            *)
(***************************************************************************)
bfs_init(start_state) ==
    [paths |-> <<>>,
     queue |-> <<SearchNode(start_state, <<start_state>>, 0, 0)>>,
     visited_at_depth |-> {}]

\* bfs without the test `key in visited_at_depth`: no node is skipped
KeyInNever(key, visited) == FALSE

\* `key in visited_at_depth` for key = (state, depth)
KeyIn(key, visited) ==
    \E k \in visited : k[2] = key[2] /\ InSet(key[1], {k[1]})

\* one iteration of bfs's while loop with "node = queue[0]" and the popleft
\* after the depth test: a node at the depth limit stays at the head
bfs_iter_peek(g, c, l) ==
    LET node == Head(l.queue)
        queue == Tail(l.queue)
        current_state == node.state
        depth == Len(node.path) - 1
        key == <<current_state, depth>>
    IN IF DepthLimit(depth, c.max_depth) THEN l
       ELSE IF KeyIn(key, l.visited_at_depth) THEN [l EXCEPT !.queue = queue]
       ELSE IF goal_test(g, current_state)
       THEN [paths |-> Append(l.paths, node.path),
             queue |-> queue,
             visited_at_depth |-> l.visited_at_depth \cup {key}]
       ELSE [paths |-> l.paths,
             queue |-> queue \o Children(node, get_neighbors(g, current_state)),
             visited_at_depth |-> l.visited_at_depth \cup {key}]

\* one iteration of bfs's while loop
bfs_iter(g, c, l) ==
    LET node == Head(l.queue)
        queue == Tail(l.queue)
        current_state == node.state
        depth == Len(node.path) - 1
        key == <<current_state, depth>>
    IN IF DepthLimit(depth, c.max_depth) THEN [l EXCEPT !.queue = queue]
       ELSE IF KeyIn(key, l.visited_at_depth) THEN [l EXCEPT !.queue = queue]
       ELSE IF goal_test(g, current_state)
       THEN [paths |-> Append(l.paths, node.path),
             queue |-> queue,
             visited_at_depth |-> l.visited_at_depth \cup {key}]
       ELSE [paths |-> l.paths,
             queue |-> queue \o Children(node, get_neighbors(g, current_state)),
             visited_at_depth |-> l.visited_at_depth \cup {key}]

(***************************************************************************)
(* dfs: loc = [paths, stack, visited_in_path].                             *)
(***************************************************************************)
dfs_init(start_state) ==
    [paths |-> <<>>,
     stack |-> <<SearchNode(start_state, <<start_state>>, 0, 0)>>,
     visited_in_path |-> {}]

\* one iteration of dfs's while loop
dfs_iter(g, c, l) ==
    LET node == Last(l.stack)
        stack == Front(l.stack)
        current_state == node.state
        depth == Len(node.path) - 1
        visited == SetAdd(l.visited_in_path, current_state)
        removed == {x \in visited : ~StateEq(x, current_state)}
    IN IF DepthLimit(depth, c.max_depth) THEN [l EXCEPT !.stack = stack]
       ELSE IF InSet(current_state, l.visited_in_path)
       THEN [l EXCEPT !.stack = stack]
       ELSE IF goal_test(g, current_state)
       THEN [paths |-> Append(l.paths, node.path),
             stack |-> stack,
             visited_in_path |-> removed]
       ELSE [paths |-> l.paths,
             stack |-> stack \o
                 Children(node, Reverse(get_neighbors(g, current_state))),
             visited_in_path |-> removed]

(***************************************************************************)
(* a_star: loc = [open_set, g_score, visited].                             *)
(***************************************************************************)
a_star_init(start_state) ==
    [open_set |-> heappush(<<>>, SearchNode(start_state, <<start_state>>, 0, 0)),
     g_score |-> DictPut(<<>>, start_state, 0),
     visited |-> {}]

RECURSIVE a_star_expand(_, _, _, _, _, _)
\* the "for neighbor in graph.get_neighbors(current_state)" loop from
\* neighbors[i] on; gives the locals after it
a_star_expand(g, c, l, node, neighbors, i) ==
    IF i > Len(neighbors) THEN l
    ELSE LET neighbor == neighbors[i]
             tentative_g == DictGet(l.g_score, node.state) + 1
         IN IF InSet(neighbor, l.visited)
            THEN a_star_expand(g, c, l, node, neighbors, i + 1)
            ELSE IF ~InSet(neighbor, DOMAIN l.g_score)
                    \/ tentative_g < DictGet(l.g_score, neighbor)
            THEN LET h == heuristic(c.heuristic, neighbor, g, g.failure_states)
                            * c.weight
                     new_node == SearchNode(neighbor,
                                            Append(node.path, neighbor),
                                            tentative_g, h)
                 IN a_star_expand(g, c,
                        [l EXCEPT
                            !.g_score = DictPut(l.g_score, neighbor, tentative_g),
                            !.open_set = heappush(l.open_set, new_node)],
                        node, neighbors, i + 1)
            ELSE a_star_expand(g, c, l, node, neighbors, i + 1)

\* one iteration of a_star's while loop: the locals after it and, when the
\* iteration returns, the path returned
a_star_iter(g, c, l) ==
    LET popped == heappop(l.open_set)
        node == popped.item
        l1 == [l EXCEPT !.open_set = popped.heap]
        current_state == node.state
        l2 == [l1 EXCEPT !.visited = SetAdd(l1.visited, current_state)]
    IN IF InSet(current_state, l.visited)
       THEN [loc |-> l1, returns |-> FALSE, path |-> None]
       ELSE IF DepthLimit(Len(node.path) - 1, c.max_depth)
       THEN [loc |-> l2, returns |-> FALSE, path |-> None]
       ELSE IF goal_test(g, current_state)
       THEN [loc |-> l2, returns |-> TRUE, path |-> node.path]
       ELSE [loc |-> a_star_expand(g, c, l2, node,
                                   get_neighbors(g, current_state), 1),
             returns |-> FALSE, path |-> None]


(***************************************************************************)
(* SpecSearch: one call of bfs, dfs or a_star on a graph built through the *)
(* Graph API, one action per iteration of the search's while loop and one  *)
(* for its return.                                                         *)
(***************************************************************************)
SearchStates ==
    { State(1, "MACHINE_001", <<"low", "low">>),
      State(2, "MACHINE_001", <<"medium", "low">>),
      State(3, "MACHINE_001", <<"high", "high">>) }

\* the add_edge call sequences that build the searched graphs: at most
\* MaxEdges distinct edges, the calls grouped by source (the order of the
\* calls for different sources does not change the adjacency lists)
EdgeSeqs ==
    {es \in UNION {[1..n -> SearchStates \X SearchStates] : n \in 0..MaxEdges} :
        \A i \in 1..Len(es), j \in 1..Len(es) :
            i < j => /\ es[i] # es[j]
                     /\ es[i][1].oid <= es[j][1].oid}

RECURSIVE AddEdgesFrom(_, _)
\* g.add_edge(a, b) for the pairs es[acc.i], es[acc.i + 1], ..., acc.graph
\* the graph as the calls before left it
AddEdgesFrom(acc, es) ==
    IF acc.i > Len(es) THEN acc.graph
    ELSE AddEdgesFrom([graph |-> add_edge(acc.graph, es[acc.i][1], es[acc.i][2]),
                       i |-> acc.i + 1], es)

\* g.add_edge(a, b) for the pairs es[i], es[i+1], ...
AddEdges(g, es, i) == AddEdgesFrom([graph |-> g, i |-> i], es)

RECURSIVE MarkFailures(_, _)
\* g.mark_failure_state(s) for every s of fs
MarkFailures(g, fs) ==
    IF fs = {} THEN g
    ELSE LET s == CHOOSE x \in fs : TRUE
         IN MarkFailures(mark_failure_state(g, s), fs \ {s})

\* the default of the max_paths argument of bfs
DefaultMaxPaths == 10

SearchCalls ==
    [algo : {"bfs"}, start_state : SearchStates, max_depth : 0..MaxDepthBound,
     max_paths : (1..MaxPathsBound) \cup {DefaultMaxPaths},
     heuristic : {None}, weight : {1}]
    \cup
    [algo : {"dfs"}, start_state : SearchStates, max_depth : 0..MaxDepthBound,
     max_paths : {None}, heuristic : {None}, weight : {1}]
    \cup
    [algo : {"a_star"}, start_state : SearchStates,
     max_depth : 0..MaxDepthBound, max_paths : {None},
     heuristic : {"time_to_failure"}, weight : {1}]

\* the locals of the called search before its loop
search_init(c) ==
    IF c.algo = "bfs" THEN bfs_init(c.start_state)
    ELSE IF c.algo = "dfs" THEN dfs_init(c.start_state)
    ELSE a_star_init(c.start_state)

RECURSIVE Pick(_, _, _)
\* the elements es[i], es[i+1], ... whose place is in keep, in their order
Pick(es, keep, i) ==
    IF i > Len(es) THEN <<>>
    ELSE IF i \in keep THEN <<es[i]>> \o Pick(es, keep, i + 1)
    ELSE Pick(es, keep, i + 1)

\* the add_edge calls of graphs where walks of equal length meet: the first
\* state has an edge to itself, to the second and to the third, the second
\* to itself, to the third and to the first; any of the calls may be left
\* out
MeetingEdges ==
    LET s1 == State(1, "MACHINE_001", <<"low", "low">>)
        s2 == State(2, "MACHINE_001", <<"medium", "low">>)
        s3 == State(3, "MACHINE_001", <<"high", "high">>)
    IN << <<s1, s1>>, <<s1, s2>>, <<s1, s3>>,
          <<s2, s2>>, <<s2, s3>>, <<s2, s1>> >>

MeetingEdgeSeqs ==
    {Pick(MeetingEdges, keep, 1) : keep \in SUBSET (1..Len(MeetingEdges))}

InitSearch ==
    /\ \E es \in EdgeSeqs \cup MeetingEdgeSeqs, fs \in SUBSET SearchStates :
        graph = MarkFailures(AddEdges(EmptyGraph, es, 1), fs)
    /\ call \in SearchCalls
    /\ pc = call.algo
    /\ loc = search_init(call)
    /\ ret = None

\* bfs: "while queue and len(paths) < max_paths" holds, one iteration
BfsStep ==
    /\ pc = "bfs"
    /\ loc.queue # <<>>
    /\ Len(loc.paths) < call.max_paths
    /\ loc' = bfs_iter(graph, call, loc)
    /\ UNCHANGED <<pc, graph, call, ret>>

\* bfs: the loop is left (queue empty, or max_paths reached); return paths
BfsReturn ==
    /\ pc = "bfs"
    /\ ~(loc.queue # <<>> /\ Len(loc.paths) < call.max_paths)
    /\ pc' = "done"
    /\ ret' = loc.paths
    /\ UNCHANGED <<graph, call, loc>>

\* dfs: "while stack" holds, one iteration
DfsStep ==
    /\ pc = "dfs"
    /\ loc.stack # <<>>
    /\ loc' = dfs_iter(graph, call, loc)
    /\ UNCHANGED <<pc, graph, call, ret>>

\* dfs: the stack is empty; return paths
DfsReturn ==
    /\ pc = "dfs"
    /\ loc.stack = <<>>
    /\ pc' = "done"
    /\ ret' = loc.paths
    /\ UNCHANGED <<graph, call, loc>>

\* a_star: "while open_set" holds, one iteration that does not return
AStarStep ==
    /\ pc = "a_star"
    /\ loc.open_set # <<>>
    /\ LET r == a_star_iter(graph, call, loc)
       IN /\ ~r.returns
          /\ loc' = r.loc
    /\ UNCHANGED <<pc, graph, call, ret>>

\* a_star: the popped node is a goal; return node.path
AStarFound ==
    /\ pc = "a_star"
    /\ loc.open_set # <<>>
    /\ pc' = "done"
    /\ LET r == a_star_iter(graph, call, loc)
       IN /\ r.returns
          /\ loc' = r.loc
          /\ ret' = r.path
    /\ UNCHANGED <<graph, call>>

\* a_star returning an empty list, as bfs and dfs do, when open_set is empty
AStarExhaustedEmptyList ==
    /\ pc = "a_star"
    /\ loc.open_set = <<>>
    /\ pc' = "done"
    /\ ret' = <<>>
    /\ UNCHANGED <<graph, call, loc>>

\* a_star: open_set is empty; return None
AStarExhausted ==
    /\ pc = "a_star"
    /\ loc.open_set = <<>>
    /\ pc' = "done"
    /\ ret' = None
    /\ UNCHANGED <<graph, call, loc>>

NextSearch ==
    \/ BfsStep \/ BfsReturn
    \/ DfsStep \/ DfsReturn
    \/ AStarStep \/ AStarFound \/ AStarExhausted

SpecSearch == InitSearch /\ [][NextSearch]_vars


(***************************************************************************)
(* SpecAStar: one call of a_star from a fixed start state on a graph over  *)
(* four states, so that the graph can hold a goal next to the start and a  *)
(* second goal behind a detour.  The actions are a_star's of SpecSearch.   *)
(***************************************************************************)
AStarStart == State(1, "MACHINE_001", <<"low", "low">>)

AStarStates ==
    SearchStates \cup {State(4, "MACHINE_001", <<"high", "low">>)}

AStarEdgeSeqs ==
    {es \in UNION {[1..n -> AStarStates \X AStarStates] : n \in 0..MaxAStarEdges} :
        \A i \in 1..Len(es), j \in 1..Len(es) :
            i < j => /\ es[i] # es[j]
                     /\ es[i][1].oid <= es[j][1].oid}

AStarCalls ==
    [algo : {"a_star"}, start_state : {AStarStart},
     max_depth : 0..MaxDepthBound, max_paths : {None},
     heuristic : {"time_to_failure"}, weight : {1}]

\* a state of a second machine, with the labels of the start state
OtherMachineState == State(5, "MACHINE_002", <<"low", "low">>)

\* the add_edge calls of the detour graphs are taken from this list: from
\* the start state (low, low) a way over the state of MACHINE_002 and a
\* longer way over (medium, low) and (high, low) lead to (high, high)
DetourEdges ==
    << <<AStarStart, OtherMachineState>>,
       <<AStarStart, State(2, "MACHINE_001", <<"medium", "low">>)>>,
       <<State(2, "MACHINE_001", <<"medium", "low">>),
         State(4, "MACHINE_001", <<"high", "low">>)>>,
       <<State(2, "MACHINE_001", <<"medium", "low">>),
         State(3, "MACHINE_001", <<"high", "high">>)>>,
       <<State(4, "MACHINE_001", <<"high", "low">>),
         State(3, "MACHINE_001", <<"high", "high">>)>>,
       <<State(4, "MACHINE_001", <<"high", "low">>), OtherMachineState>>,
       <<OtherMachineState, State(3, "MACHINE_001", <<"high", "high">>)>> >>

DetourEdgeSeqs ==
    {Pick(DetourEdges, keep, 1) : keep \in SUBSET (1..Len(DetourEdges))}

\* SearchParams.max_depth default, and the default of the max_depth argument
\* of bfs, dfs and a_star
DefaultMaxDepth == 50

\* a_star with either heuristic, weight 1.0 and 2.0
DetourCalls ==
    [algo : {"a_star"}, start_state : {AStarStart},
     max_depth : {MaxDepthBound, MaxDepthBound + 1, DefaultMaxDepth},
     max_paths : {None},
     heuristic : {"time_to_failure", "sensor_distance"}, weight : {1, 2}]

InitAStar ==
    /\ \/ /\ \E es \in AStarEdgeSeqs, fs \in SUBSET AStarStates :
                graph = MarkFailures(AddEdges(EmptyGraph, es, 1), fs)
          /\ call \in AStarCalls
       \/ /\ \E es \in DetourEdgeSeqs :
                \E fs \in {{State(3, "MACHINE_001", <<"high", "high">>)},
                           {State(3, "MACHINE_001", <<"high", "high">>),
                            State(4, "MACHINE_001", <<"high", "low">>)}} :
                   graph = MarkFailures(AddEdges(EmptyGraph, es, 1), fs)
          /\ call \in DetourCalls
    /\ pc = call.algo
    /\ loc = search_init(call)
    /\ ret = None

NextAStar == AStarStep \/ AStarFound \/ AStarExhausted

SpecAStar == InitAStar /\ [][NextAStar]_vars


(***************************************************************************)
(* Claims about the searches.                                              *)
(***************************************************************************)
RECURSIVE Walks(_, _, _)
\* the walks of k edges that leave s
Walks(g, s, k) ==
    IF k = 0 THEN {<<s>>}
    ELSE UNION {{Append(w, n) : n \in Range(get_neighbors(g, Last(w)))} :
                  w \in Walks(g, s, k - 1)}

\* the walks of k edges from s that end in a failure state
GoalWalks(g, s, k) == {w \in Walks(g, s, k) : Last(w) \in g.failure_states}

\* some failure state can be reached from s
GoalReachable(g, s) ==
    \E k \in 0..Cardinality(g.nodes) : GoalWalks(g, s, k) # {}

\* the search of the call in progress was dfs (bfs, a_star) and has returned
Returned(algo) == pc = "done" /\ call.algo = algo

\* C1: no path returned by dfs contains the same state twice.
C1_DfsPathsHaveNoRepeatedState ==
    Returned("dfs") => \A i \in 1..Len(ret) : NoDupStates(ret[i])

\* C3: every path returned by bfs and by dfs has at most max_depth + 1 states.
C3_PathsWithinMaxDepth ==
    (Returned("bfs") \/ Returned("dfs")) =>
        \A i \in 1..Len(ret) : Len(ret[i]) <= call.max_depth + 1

\* C3 witness: bfs has returned two paths, the longer one of max_depth states
C3_Witness ==
    /\ Returned("bfs")
    /\ Len(ret) = 2
    /\ call.max_depth >= 3
    /\ Len(ret[2]) = call.max_depth

\* the number of edges of the shortest walks from s to a failure state that
\* have fewer than max_depth edges, when there is one
ShortestLen(g, s, max_depth) ==
    CHOOSE k \in 0..(max_depth - 1) :
        /\ GoalWalks(g, s, k) # {}
        /\ \A j \in 0..(k - 1) : GoalWalks(g, s, j) = {}

\* the start state has exactly one shortest path to a goal state, and it has
\* fewer than max_depth edges
UniqueShortest(g, s, max_depth) ==
    /\ \E k \in 0..(max_depth - 1) : GoalWalks(g, s, k) # {}
    /\ Cardinality(GoalWalks(g, s, ShortestLen(g, s, max_depth))) = 1

\* C9: a_star with the constant heuristic, on a graph where the start state
\* has a unique shortest path to a goal state (of fewer than max_depth
\* edges), returns exactly that path.
C9_AStarReturnsUniqueShortestPath ==
    (/\ Returned("a_star")
     /\ call.heuristic = "time_to_failure"
     /\ UniqueShortest(graph, call.start_state, call.max_depth))
    => ret \in GoalWalks(graph, call.start_state,
                         ShortestLen(graph, call.start_state, call.max_depth))

\* C9 witness: a_star returned the unique shortest path, of three states,
\* on a graph that has a second, longer walk to a goal
C9_Witness ==
    /\ Returned("a_star")
    /\ call.heuristic = "time_to_failure"
    /\ UniqueShortest(graph, call.start_state, call.max_depth)
    /\ ret # None
    /\ Len(ret) = 3
    /\ GoalWalks(graph, call.start_state, 3) # {}

\* C10: when no goal state is reachable from the start state, a_star returns
\* None and bfs and dfs return an empty list; none of them raises (every
\* dict lookup of the searches finds its key).
C10_ExhaustionIsAValue ==
    ~GoalReachable(graph, call.start_state) =>
        /\ Returned("a_star") => ret = None
        /\ (Returned("bfs") \/ Returned("dfs")) => ret = <<>>
        /\ pc = "a_star" =>
              \A i \in 1..Len(loc.open_set) :
                  InSet(loc.open_set[i].state, DOMAIN loc.g_score)

\* C10 witness: a_star has returned None after expanding the start state of
\* a graph that has failure states, none reachable
C10_Witness ==
    /\ Returned("a_star")
    /\ ret = None
    /\ graph.failure_states # {}
    /\ Len(get_neighbors(graph, call.start_state)) >= 2
    /\ call.max_depth >= 2
    /\ ~GoalReachable(graph, call.start_state)


\* the walks of k edges from s that end in a failure state and meet no
\* failure state before
FirstGoalWalks(g, s, k) ==
    {w \in GoalWalks(g, s, k) :
        \A i \in 1..(Len(w) - 1) : w[i] \notin g.failure_states}

\* C23: bfs cuts exploration only when the depth exceeds max_depth: when
\* fewer than max_paths paths are returned, every goal state that a walk of
\* exactly max_depth edges reaches from the start state (no goal state
\* before its end) ends a returned path of max_depth edges
C23_GoalAtMaxDepthAccepted ==
    (Returned("bfs") /\ Len(ret) < call.max_paths) =>
        \A w \in FirstGoalWalks(graph, call.start_state, call.max_depth) :
            \E i \in 1..Len(ret) :
                /\ Len(ret[i]) = call.max_depth + 1
                /\ Last(ret[i]) = Last(w)

\* some walk of fewer than n edges leads from s to a failure state
GoalWithin(g, s, n) ==
    \E k \in 0..(n - 1) : k <= Cardinality(g.nodes) /\ GoalWalks(g, s, k) # {}

\* C24: the path a_star returns with weight 1.0, for either heuristic, is
\* optimal: no walk from the start state to a goal state has fewer edges
C24_AStarPathIsOptimal ==
    (Returned("a_star") /\ call.weight = 1 /\ ret # None) =>
        ~GoalWithin(graph, call.start_state, Len(ret) - 1)

\* C25: for either heuristic and any weight >= 1, a_star returns a path and
\* not None whenever some walk of fewer than max_depth edges leads from the
\* start state to a goal state
C25_AStarFindsReachableGoal ==
    (/\ Returned("a_star")
     /\ call.weight >= 1
     /\ GoalWithin(graph, call.start_state, call.max_depth))
    => ret # None

\* the paths the search of the call returned: the list of bfs and dfs, the
\* path of a_star when it returned one
ReturnedPaths ==
    IF call.algo = "a_star" THEN (IF ret = None THEN <<>> ELSE <<ret>>)
    ELSE ret

\* p starts at the start state, follows edges of the graph, ends at a goal
\* state and meets no goal state before its end
WalkToGoal(g, start_state, p) ==
    /\ Len(p) >= 1
    /\ p[1] = start_state
    /\ \A i \in 1..(Len(p) - 1) :
          /\ InSet(p[i + 1], Range(get_neighbors(g, p[i])))
          /\ ~goal_test(g, p[i])
    /\ goal_test(g, p[Len(p)])

\* C26: every path returned by bfs, dfs or a_star starts at the start
\* state, each consecutive pair of its states is an edge of the graph, its
\* last state is a goal state and no state before the last is one
C26_ReturnedPathsAreWalksToGoal ==
    pc = "done" =>
        \A i \in 1..Len(ReturnedPaths) :
            WalkToGoal(graph, call.start_state, ReturnedPaths[i])

\* a path of three states was returned on a graph where a goal state has an
\* edge that leaves it
C26_Witness ==
    /\ pc = "done"
    /\ \E i \in 1..Len(ReturnedPaths) : Len(ReturnedPaths[i]) = 3
    /\ \E f \in graph.failure_states : get_neighbors(graph, f) # <<>>

\* the goal states that a walk of d edges from s reaches without meeting a
\* goal state before
GoalsAtDepth(g, s, d) == {Last(w) : w \in FirstGoalWalks(g, s, d)}

\* C27: when bfs returns fewer than max_paths paths, then for every d <
\* max_depth and every goal state that a walk of d edges reaches from the
\* start state through non-goal states only, exactly one returned path has
\* d edges and ends at that goal state; and the returned paths are in
\* non-decreasing order of length
C27_BfsLosesNoGoal ==
    (Returned("bfs") /\ Len(ret) < call.max_paths) =>
        /\ \A d \in 0..(call.max_depth - 1) :
              \A f \in GoalsAtDepth(graph, call.start_state, d) :
                 Cardinality({i \in 1..Len(ret) :
                     Len(ret[i]) = d + 1 /\ Last(ret[i]) = f}) = 1
        /\ \A i \in 1..Len(ret), j \in 1..Len(ret) :
              i < j => Len(ret[i]) <= Len(ret[j])

\* two walks of as many edges, fewer than max_depth, reach one goal state
\* through non-goal states, on two ways: bfs met the (state, depth) pair of
\* the goal state a second time; it returned a shorter path to that goal
\* state as well, and would have returned more paths
C27_Witness ==
    /\ Returned("bfs")
    /\ Len(ret) < call.max_paths
    /\ \E d \in 0..(call.max_depth - 1) :
          \E f \in GoalsAtDepth(graph, call.start_state, d) :
             /\ Cardinality({w \in FirstGoalWalks(graph, call.start_state, d) :
                                Last(w) = f}) >= 2
             /\ \E i \in 1..Len(ret) : Len(ret[i]) < d + 1 /\ Last(ret[i]) = f

\* the calls termination is checked on: those of SearchCalls with bfs's
\* max_paths left at its default, on graphs of fewer than MaxEdges edges
\* (a self-loop, a cycle of two states, a self-loop beside an edge to a goal
\* are among them).  ret holds a value once the search has returned; the
\* empty list stands in until then.
InitSearchFair ==
    /\ \E es \in {e \in EdgeSeqs : Len(e) < MaxEdges},
          fs \in SUBSET SearchStates :
        graph = MarkFailures(AddEdges(EmptyGraph, es, 1), fs)
    /\ call \in {c \in SearchCalls :
                    c.algo = "bfs" => c.max_paths = DefaultMaxPaths}
    /\ pc = call.algo
    /\ loc = search_init(call)
    /\ ret = <<>>

\* SpecSearch with the search running on: the program is sequential, so an
\* iteration or a return that can be taken (each changes the locals or the
\* position of the call) is taken
SpecSearchFair ==
    InitSearchFair /\ [][NextSearch]_vars /\ WF_<<pc, loc>>(NextSearch)

\* C28: bfs, dfs and a_star terminate on every graph, with cycles and
\* self-loops too, for every max_depth >= 0 and every start state
C28_SearchesTerminate == <>(pc = "done")

\* a search returned whose start state has an edge to itself and is no goal
\* state, with the largest max_depth
C28_Witness ==
    /\ pc = "done"
    /\ call.max_depth = MaxDepthBound
    /\ InSet(call.start_state,
             Range(get_neighbors(graph, call.start_state)))
    /\ ~goal_test(graph, call.start_state)
    /\ GoalReachable(graph, call.start_state)

(***************************************************************************)
(* discover_failure_sequences: loc = [sequences, start_states, remaining,  *)
(* fallback]; remaining holds the start states the for loop has not yet    *)
(* taken, in the order the iteration of the set gives them, which is an    *)
(* input of the call (call.hash_order).                                    *)
(***************************************************************************)
\* the depth cap of discover_failure_sequences: min(search_params.max_depth, 10)
DiscoverDepthCap == 10
\* max_paths_per_start
max_paths_per_start == 5
\* max_total_paths
max_total_paths == 100
\* the size cap of the random fallback sample
FallbackSampleCap == 100

Min(a, b) == IF a < b THEN a ELSE b

RECURSIVE ConcatAll(_, _)
\* the lists ss[i], ss[i+1], ... one after the other
ConcatAll(ss, i) == IF i > Len(ss) THEN <<>> ELSE ss[i] \o ConcatAll(ss, i + 1)

RECURSIVE Ascending(_)
\* the numbers of a set from the smallest up
Ascending(c) ==
    IF c = {} THEN <<>>
    ELSE LET first == CHOOSE x \in c : \A y \in c : x <= y
         IN <<first>> \o Ascending(c \ {first})

\* the identities of the State objects of a set
Oids(c) == {s.oid : s \in c}

\* The order a set of State objects is iterated in (list(graph.nodes), "for
\* failure_state in graph.failure_states", "for start_state in
\* start_states") is fixed by the hashes of the machine_id strings, which
\* change with PYTHONHASHSEED from one run of the interpreter to the next.
\* It is an input of the call: call.hash_order lists the identities of the
\* State objects, and a set is iterated in the order its objects have in
\* that list.  HashOrders gives the lists for the objects oids: every order
\* of them.
HashOrders(oids) ==
    {f \in [1..Cardinality(oids) -> oids] :
        \A i \in DOMAIN f, j \in DOMAIN f : i # j => f[i] # f[j]}

\* list(c), "for x in c" for a set c of State objects whose identities are
\* all in hash_order
InHashOrder(c, hash_order) ==
    LET present == SelectSeq(hash_order, LAMBDA o : o \in Oids(c))
    IN [i \in 1..Len(present) |-> CHOOSE x \in c : x.oid = present[i]]

RECURSIVE bfs_run(_, _, _)
\* bfs from the locals l to its return value
bfs_run(g, c, l) ==
    IF l.queue # <<>> /\ Len(l.paths) < c.max_paths
    THEN bfs_run(g, c, bfs_iter(g, c, l))
    ELSE l.paths

\* bfs(graph, start_state, goal_test, max_depth, max_paths)
bfs(g, start_state, max_depth, max_paths) ==
    bfs_run(g, [start_state |-> start_state, max_depth |-> max_depth,
                max_paths |-> max_paths],
            bfs_init(start_state))

\* the states with an edge into a failure state that are not failure states
\* themselves
FailurePredecessors(g) ==
    {s \in DOMAIN g.edges :
        /\ ~is_failure_state(g, s)
        /\ \E t \in Range(g.edges[s]) : is_failure_state(g, t)}

RECURSIVE add_non_failure(_, _, _, _)
\* lines 302-304, "for neighbor in neighbors" from neighbors[i] on:
\* start_states.add keeps the object that is there when an equal one comes
add_non_failure(g, neighbors, i, start_states) ==
    IF i > Len(neighbors) THEN start_states
    ELSE add_non_failure(g, neighbors, i + 1,
             IF ~is_failure_state(g, neighbors[i])
             THEN SetAdd(start_states, neighbors[i])
             ELSE start_states)

RECURSIVE start_states_loop(_, _, _, _)
\* lines 299-304, "for failure_state in graph.failure_states" from
\* failure_states[k] on
start_states_loop(g, failure_states, k, start_states) ==
    IF k > Len(failure_states) THEN start_states
    ELSE start_states_loop(g, failure_states, k + 1,
             add_non_failure(g, get_neighbors(g, failure_states[k]), 1,
                             start_states))

\* the start states the code gathers: the non-failure states in
\* graph.get_neighbors(failure_state), for every failure state
start_states_from_neighbors(g, hash_order) ==
    start_states_loop(g, InHashOrder(g.failure_states, hash_order), 1, {})

\* list(graph.nodes): the failure states are not left out
all_states(g) == g.nodes

\* [s for s in graph.nodes if not graph.is_failure_state(s)]
non_failure_states(g) == {s \in g.nodes : ~is_failure_state(g, s)}

\* the values random.sample(population, k) can return, as sets
random_samples(population, k) ==
    {x \in SUBSET population : Cardinality(x) = k}

DiscoverDepths == (0..MaxDepthBound) \cup {DefaultMaxDepth}

\* the failure state and the i-th other state of the fan and chain graphs
FailureState == State(0, "MACHINE_000", <<"high", "high">>)

MachineState(i) == State(i, "MACHINE_" \o ToString(i), <<"low", "low">>)

\* the add_edge calls of a fan: the failure state has an edge to each of n
\* states and each of them an edge back; all but those in singles have an
\* edge to themselves as well
FanEdges(n, singles) ==
    ConcatAll([i \in 1..n |->
        IF i \in singles
        THEN << <<FailureState, MachineState(i)>>,
                <<MachineState(i), FailureState>> >>
        ELSE << <<FailureState, MachineState(i)>>,
                <<MachineState(i), MachineState(i)>>,
                <<MachineState(i), FailureState>> >>], 1)

\* the add_edge calls of a chain: k states in a row, the last with an edge
\* to the failure state and the failure state with an edge to the first
ChainEdges(k) ==
    [i \in 1..(k + 1) |->
        IF i = k + 1 THEN <<FailureState, MachineState(1)>>
        ELSE IF i = k THEN <<MachineState(k), FailureState>>
        ELSE <<MachineState(i), MachineState(i + 1)>>]

\* fans of two states and more, without and with a state that has no edge
\* to itself
FanEdgeSeqs ==
    {FanEdges(n, singles) : n \in 2..MaxFanStarts, singles \in {{}, {1}}}

\* chains as long as the depth cap lets through and longer
ChainEdgeSeqs == {ChainEdges(k) : k \in (DiscoverDepthCap - 1)..MaxChain}

\* max_depth below, at and above the depth cap, for the chains
LargeDiscoverDepths ==
    {DiscoverDepthCap - 1, DiscoverDepthCap, DiscoverDepthCap + 1,
     DefaultMaxDepth}

\* two failure states, and two State objects equal in value, each the
\* neighbor of one of the failure states
FirstFailure == State(10, "MACHINE_001", <<"high", "high">>)

SecondFailure == State(11, "MACHINE_002", <<"high", "high">>)

Twin(oid) == State(oid, "MACHINE_003", <<"low", "low">>)

\* the add_edge calls that give the two failure states equal neighbors that
\* are two objects: the adjacency list of each holds the object it was
\* called with
TwinEdgeSeqs ==
    { << <<FirstFailure, Twin(12)>>, <<Twin(12), SecondFailure>>,
         <<SecondFailure, Twin(13)>> >>,
      << <<FirstFailure, Twin(12)>>, <<SecondFailure, Twin(13)>>,
         <<SecondFailure, Twin(12)>>, <<Twin(13), FirstFailure>> >> }

\* the states of g the loop of lines 316-326 goes through: the start states
\* found next to the failure states or, when there is none, the sample, which
\* holds every non-failure state of a graph of at most FallbackSampleCap
IteratedStates(g, failure_order) ==
    LET found == start_states_from_neighbors(g, failure_order)
    IN IF found # {} THEN found ELSE non_failure_states(g)

\* the calls on the graph g: a max_depth and an iteration order of the states
\* the call iterates over, every order of the failure states followed by
\* every order of the start states
DiscoverCalls(g, depths) ==
    [max_depth : depths,
     hash_order : UNION {{failure_order \o order :
                            order \in HashOrders(
                                Oids(IteratedStates(g, failure_order)))} :
                         failure_order \in HashOrders(Oids(g.failure_states))}]

InitDiscover ==
    /\ \/ /\ \E es \in EdgeSeqs, fs \in SUBSET SearchStates :
                graph = MarkFailures(AddEdges(EmptyGraph, es, 1), fs)
          /\ call \in DiscoverCalls(graph, DiscoverDepths)
       \/ /\ \E es \in FanEdgeSeqs :
                graph = mark_failure_state(AddEdges(EmptyGraph, es, 1),
                                           FailureState)
          /\ call \in DiscoverCalls(graph, DiscoverDepths)
       \/ /\ \E es \in ChainEdgeSeqs :
                graph = mark_failure_state(AddEdges(EmptyGraph, es, 1),
                                           FailureState)
          /\ call \in DiscoverCalls(graph, LargeDiscoverDepths)
       \/ /\ \E es \in TwinEdgeSeqs :
                graph = MarkFailures(AddEdges(EmptyGraph, es, 1),
                                     {FirstFailure, SecondFailure})
          /\ call \in DiscoverCalls(graph, DiscoverDepths)
    /\ pc = "discover"
    /\ loc = [sequences |-> <<>>]
    /\ ret = None

\* "sequences = paths" in the place of sequences.extend(paths)
extend_assign(sequences, paths) == paths

\* sequences.extend(paths)
extend(sequences, paths) == sequences \o paths

\* lines 298-304: the start states are found next to the failure states
DiscoverStartStates ==
    /\ pc = "discover"
    /\ LET start_states ==
               start_states_from_neighbors(graph, call.hash_order)
       IN /\ start_states # {}
          /\ loc' = [sequences |-> <<>>,
                     start_states |-> start_states,
                     remaining |-> InHashOrder(start_states, call.hash_order),
                     fallback |-> FALSE]
    /\ pc' = "discover_loop"
    /\ UNCHANGED <<graph, call, ret>>

\* lines 307-311: none was found; a random sample of the non-failure states
DiscoverFallback ==
    /\ pc = "discover"
    /\ start_states_from_neighbors(graph, call.hash_order) = {}
    /\ \E sample \in random_samples(non_failure_states(graph),
            Min(FallbackSampleCap, Cardinality(non_failure_states(graph)))) :
        loc' = [sequences |-> <<>>, start_states |-> sample,
                remaining |-> InHashOrder(sample, call.hash_order),
                fallback |-> TRUE]
    /\ pc' = "discover_loop"
    /\ UNCHANGED <<graph, call, ret>>

\* lines 316-326: one iteration of "for start_state in start_states"
DiscoverSearch ==
    /\ pc = "discover_loop"
    /\ loc.remaining # <<>>
    /\ Len(loc.sequences) < max_total_paths
    /\ LET start_state == Head(loc.remaining)
       IN loc' = [loc EXCEPT
                    !.remaining = Tail(@),
                    !.sequences = extend(@, bfs(graph, start_state,
                                           Min(call.max_depth, DiscoverDepthCap),
                                           max_paths_per_start))]
    /\ UNCHANGED <<pc, graph, call, ret>>

\* line 328: the loop is over (or left by break); return sequences
DiscoverReturn ==
    /\ pc = "discover_loop"
    /\ (loc.remaining = <<>> \/ Len(loc.sequences) >= max_total_paths)
    /\ pc' = "done"
    /\ ret' = loc.sequences
    /\ UNCHANGED <<graph, call, loc>>

NextDiscover ==
    DiscoverStartStates \/ DiscoverFallback \/ DiscoverSearch \/ DiscoverReturn

SpecDiscover == InitDiscover /\ [][NextDiscover]_vars

\* C2: the candidate start states of discover_failure_sequences are exactly
\* the non-failure states with a direct edge into some failure state; the
\* random-sample fallback over all non-failure states is used only when no
\* such predecessor exists.
C2_StartStatesArePredecessors ==
    pc = "discover_loop" =>
        /\ loc.fallback <=> FailurePredecessors(graph) = {}
        /\ ~loc.fallback => loc.start_states = FailurePredecessors(graph)

\* the number of times path is in the list paths
CountOf(path, paths) == Cardinality({i \in 1..Len(paths) : paths[i] = path})

\* what a BFS of discover_failure_sequences from start_state finds on its own
FoundFrom(start_state) ==
    bfs(graph, start_state,
        IF call.max_depth < DiscoverDepthCap THEN call.max_depth
        ELSE DiscoverDepthCap,
        max_paths_per_start)

RECURSIVE TotalFound(_)
\* the number of paths found over the start states of the set c
TotalFound(c) ==
    IF c = {} THEN 0
    ELSE LET s == CHOOSE x \in c : TRUE
         IN Len(FoundFrom(s)) + TotalFound(c \ {s})

\* C21: whenever the number of paths found over all start states is below
\* 100, the list discover_failure_sequences returns holds every path as many
\* times as the searches of the start states find it, each search taken on
\* its own, whatever the order the start states were processed in
C21_MergeIsOrderIndependent ==
    (pc = "done" /\ TotalFound(loc.start_states) < 100) =>
        /\ Len(ret) = TotalFound(loc.start_states)
        /\ \A s \in loc.start_states :
              \A i \in 1..Len(FoundFrom(s)) :
                 CountOf(FoundFrom(s)[i], ret) = 1
        /\ \A i \in 1..Len(ret) :
              \E s \in loc.start_states :
                 CountOf(ret[i], FoundFrom(s)) = 1

\* three start states or more found paths each, fewer than 100 in all, and
\* they were processed neither in the order they were made in nor in the
\* reverse of it
C21_Witness ==
    /\ pc = "done"
    /\ Cardinality({s \in loc.start_states : FoundFrom(s) # <<>>}) >= 3
    /\ TotalFound(loc.start_states) < 100
    /\ \E i \in 1..Len(ret), j \in 1..Len(ret) :
          i < j /\ ret[i][1].oid > ret[j][1].oid
    /\ \E i \in 1..Len(ret), j \in 1..Len(ret) :
          i < j /\ ret[i][1].oid < ret[j][1].oid

(***************************************************************************)
(* config.py: DiscretizationConfig and GraphConfig.  A call that raises    *)
(* gives the exception's name in the field error.                          *)
(***************************************************************************)
DiscretizationConfig(bins, labels) == [bins |-> bins, labels |-> labels]

GraphConfig(discretization, state_components) ==
    [discretization |-> discretization, state_components |-> state_components]

RECURSIVE get_bin_from_closed(_, _, _)
\* get_bin's loop with "bins[i] <= value <= bins[i + 1]"
get_bin_from_closed(config, value, i) ==
    IF i < Len(config.bins) - 1
    THEN IF config.bins[i + 1] <= value /\ value <= config.bins[i + 2]
         THEN IF i + 1 <= Len(config.labels)
              THEN [error |-> None, label |-> config.labels[i + 1]]
              ELSE [error |-> "IndexError", label |-> None]
         ELSE get_bin_from_closed(config, value, i + 1)
    ELSE IF Len(config.bins) = 0 THEN [error |-> "IndexError", label |-> None]
    ELSE IF value >= config.bins[Len(config.bins)]
    THEN IF Len(config.labels) = 0
         THEN [error |-> "IndexError", label |-> None]
         ELSE [error |-> None, label |-> config.labels[Len(config.labels)]]
    ELSE [error |-> "ValueError", label |-> None]

RECURSIVE get_bin_from(_, _, _)
\* DiscretizationConfig.get_bin from the loop index i (0-based) on
get_bin_from(config, value, i) ==
    IF i < Len(config.bins) - 1
    THEN IF config.bins[i + 1] <= value /\ value < config.bins[i + 2]
         THEN IF i + 1 <= Len(config.labels)
              THEN [error |-> None, label |-> config.labels[i + 1]]
              ELSE [error |-> "IndexError", label |-> None]
         ELSE get_bin_from(config, value, i + 1)
    ELSE IF Len(config.bins) = 0 THEN [error |-> "IndexError", label |-> None]
    ELSE IF value >= config.bins[Len(config.bins)]
    THEN IF Len(config.labels) = 0
         THEN [error |-> "IndexError", label |-> None]
         ELSE [error |-> None, label |-> config.labels[Len(config.labels)]]
    ELSE [error |-> "ValueError", label |-> None]

\* DiscretizationConfig.get_bin
get_bin(config, value) == get_bin_from(config, value, 0)

\* GraphConfig.from_json, data the parsed content of the file: no check is
\* made of the lengths of bins and labels, nor of the names in
\* state_components
from_json(data) ==
    GraphConfig(
        [sensor_name \in DOMAIN data.discretization |->
            DiscretizationConfig(data.discretization[sensor_name].bins,
                                 data.discretization[sensor_name].labels)],
        data.state_components)

\* discretize_sensors without its try/except: the first exception of get_bin
\* leaves the function
discretize_sensors_no_except(graph_config, sensor_values) ==
    LET names == {n \in DOMAIN graph_config.discretization :
                    n \in DOMAIN sensor_values}
        bin(n) == get_bin(graph_config.discretization[n], sensor_values[n])
    IN IF \E n \in names : bin(n).error # None
       THEN [error |-> bin(CHOOSE n \in names : bin(n).error # None).error,
             result |-> <<>>]
       ELSE [error |-> None, result |-> [n \in names |-> bin(n).label]]

\* GraphConfig.discretize_sensors: a ValueError of get_bin is caught and the
\* sensor skipped; any other exception leaves the function
discretize_sensors(graph_config, sensor_values) ==
    LET names == {n \in DOMAIN graph_config.discretization :
                    n \in DOMAIN sensor_values}
        bin(n) == get_bin(graph_config.discretization[n], sensor_values[n])
    IN IF \E n \in names : bin(n).error = "IndexError"
       THEN [error |-> "IndexError", result |-> <<>>]
       ELSE [error |-> None,
             result |-> [n \in {m \in names : bin(m).error = None} |->
                            bin(n).label]]

(***************************************************************************)
(* io.py: HistoricalRecord.                                                *)
(***************************************************************************)
HistoricalRecord(machine_id, time_key, sensors, failure_label) ==
    [machine_id |-> machine_id, time_key |-> time_key, sensors |-> sensors,
     failure_label |-> failure_label]

(***************************************************************************)
(* graph.py: states_differ_by_one and build_graph.                         *)
(***************************************************************************)
\* max_neighbors_per_state
max_neighbors_per_state == 20

\* states_differ_by_one
states_differ_by_one(s1, s2, ignore_machine_id) ==
    IF ~ignore_machine_id /\ s1.machine_id # s2.machine_id THEN FALSE
    ELSE IF Len(s1.sensor_bins) # Len(s2.sensor_bins) THEN FALSE
    ELSE CountDiff(s1.sensor_bins, s2.sensor_bins) = 1

RECURSIVE machine_ids(_, _, _)
\* the keys of machine_records in insertion order: the machine ids of
\* records[i..] not already in seen, by first appearance
machine_ids(records, i, seen) ==
    IF i > Len(records) THEN seen
    ELSE IF records[i].machine_id \in Range(seen)
    THEN machine_ids(records, i + 1, seen)
    ELSE machine_ids(records, i + 1, Append(seen, records[i].machine_id))

\* list.insert keeping the list ascending by time_key, after the records
\* whose time_key is not greater (the sort is stable)
InsertByTimeKey(sorted, r) ==
    LET n == Cardinality({i \in 1..Len(sorted) : sorted[i].time_key <= r.time_key})
    IN SubSeq(sorted, 1, n) \o <<r>> \o SubSeq(sorted, n + 1, Len(sorted))

RECURSIVE sort_by_time_key(_, _, _)
\* machine_record_list.sort(key=lambda r: r.time_key)
sort_by_time_key(s, i, sorted) ==
    IF i > Len(s) THEN sorted
    ELSE sort_by_time_key(s, i + 1, InsertByTimeKey(sorted, s[i]))

\* machine_records[machine_id] as input order leaves it
group_by_machine(records, machine_id) ==
    SelectSeq(records, LAMBDA r : r.machine_id = machine_id)

\* machine_records[machine_id] after its sort
machine_record_list(records, machine_id) ==
    sort_by_time_key(group_by_machine(records, machine_id), 1, <<>>)

\* has_temporal_data with all(...) in the place of any(...)
has_temporal_data_all(records) ==
    \A m \in Range(machine_ids(records, 1, <<>>)) :
        Len(group_by_machine(records, m)) > 1

\* has_temporal_data = any(len(recs) > 1 for recs in machine_records.values())
has_temporal_data(records) ==
    \E m \in Range(machine_ids(records, 1, <<>>)) :
        Len(group_by_machine(records, m)) > 1

\* tuple(discretized.get(sensor, "unknown") for sensor in state_components)
sensor_bins_of(graph_config, discretized) ==
    [i \in 1..Len(graph_config.state_components) |->
        IF graph_config.state_components[i] \in DOMAIN discretized
        THEN discretized[graph_config.state_components[i]]
        ELSE "unknown"]

\* the records in the order the loops of build_graph take them: machine by
\* machine in insertion order, each machine's by time_key
processing_order(records) ==
    LET ms == machine_ids(records, 1, <<>>)
    IN ConcatAll([k \in 1..Len(ms) |-> machine_record_list(records, ms[k])], 1)

\* lines 184-185 with an else branch that takes the mark away: the last
\* record of a state decides
mark_if_failure_last(g, state, record) ==
    IF record.failure_label THEN mark_failure_state(g, state)
    ELSE [g EXCEPT !.failure_states = {f \in @ : ~StateEq(f, state)}]

\* lines 184-185: "if record.failure_label: graph.mark_failure_state(state)"
mark_if_failure(g, state, record) ==
    IF record.failure_label THEN mark_failure_state(g, state) ELSE g

RECURSIVE build_nodes(_, _, _, _)
\* lines 155-187 for the records ordered[i..]; acc = [graph, all_states,
\* next_oid, error], next_oid the identity of the next State object made
build_nodes(graph_config, ordered, i, acc) ==
    IF i > Len(ordered) \/ acc.error # None THEN acc
    ELSE
        LET record == ordered[i]
            discretized == discretize_sensors(graph_config, record.sensors)
            new == State(acc.next_oid, record.machine_id,
                         sensor_bins_of(graph_config, discretized.result))
            exists == InSet(new, acc.graph.nodes)
            state == IF exists THEN Existing(new, acc.graph.nodes) ELSE new
            g1 == IF exists THEN acc.graph ELSE add_node(acc.graph, new)
            g2 == [g1 EXCEPT !.state_to_records =
                      DictPut(@, state, Append(DictGet(@, state), record))]
            g3 == mark_if_failure(g2, state, record)
        IN IF discretized.error # None
           THEN [acc EXCEPT !.error = discretized.error]
           ELSE build_nodes(graph_config, ordered, i + 1,
                    [graph |-> g3,
                     all_states |-> Append(acc.all_states, state),
                     next_oid |-> acc.next_oid + 1,
                     error |-> None])

\* lines 194-204: the states of one machine's records, each the object the
\* graph holds when there is one
machine_states(graph_config, g, recs, next_oid) ==
    [i \in 1..Len(recs) |->
        LET new == State(next_oid + i - 1, recs[i].machine_id,
                         sensor_bins_of(graph_config,
                             discretize_sensors(graph_config,
                                                recs[i].sensors).result))
        IN IF InSet(new, g.nodes) THEN Existing(new, g.nodes) ELSE new]

RECURSIVE add_consecutive_wrap(_, _, _)
\* lines 207-208 with range(len(states)) and the index i + 1 taken modulo
\* len(states): the last state is joined to the first
add_consecutive_wrap(g, states, i) ==
    IF i > Len(states) THEN g
    ELSE add_consecutive_wrap(
             add_edge(g, states[i], states[(i % Len(states)) + 1]),
             states, i + 1)

RECURSIVE add_consecutive(_, _, _)
\* lines 207-208: for i in range(len(states) - 1): add_edge(states[i], states[i+1])
add_consecutive(g, states, i) ==
    IF i > Len(states) - 1 THEN g
    ELSE add_consecutive(add_edge(g, states[i], states[i + 1]), states, i + 1)

RECURSIVE temporal_edges(_, _, _, _, _, _)
\* lines 192-208 for the machines ms[k..]
temporal_edges(graph_config, g, records, ms, k, next_oid) ==
    IF k > Len(ms) THEN g
    ELSE LET recs == machine_record_list(records, ms[k])
             states == machine_states(graph_config, g, recs, next_oid)
         IN temporal_edges(graph_config, add_consecutive(g, states, 1),
                           records, ms, k + 1, next_oid + Len(recs))

RECURSIVE similarity_inner(_, _, _, _)
\* lines 219-226: "for state2 in states_list" from states_list[j] on, inner
\* the graph and neighbors_found as the iterations before left them
similarity_inner(states_list, state1, j, inner) ==
    IF j > Len(states_list) THEN inner.graph
    ELSE LET state2 == states_list[j]
         IN IF StateEq(state1, state2)
            THEN similarity_inner(states_list, state1, j + 1, inner)
            ELSE IF inner.neighbors_found >= max_neighbors_per_state
            THEN inner.graph
            ELSE IF states_differ_by_one(state1, state2, TRUE)
            THEN similarity_inner(states_list, state1, j + 1,
                     [graph |-> add_edge(inner.graph, state1, state2),
                      neighbors_found |-> inner.neighbors_found + 1])
            ELSE similarity_inner(states_list, state1, j + 1, inner)

\* lines 139-187 of build_graph: the graph with its nodes, no edge yet
build_graph_nodes(records, graph_config) ==
    build_nodes(graph_config, processing_order(records), 1,
                [graph |-> EmptyGraph, all_states |-> <<>>, next_oid |-> 1,
                 error |-> None])

\* lines 189-208 of build_graph, temporal mode
build_graph_temporal(records, graph_config, acc) ==
    temporal_edges(graph_config, acc.graph, records,
                   machine_ids(records, 1, <<>>), 1, acc.next_oid)

(***************************************************************************)
(* SpecBuild: one call of build_graph.  The batches are every list of at   *)
(* most MaxRecords records of two machines, and the one-record-per-machine *)
(* batches of up to MaxSimMachines machines around one central state, each *)
(* with every iteration order of its State objects.                        *)
(* loc holds the locals has_temporal_data and states_list of the call.     *)
(***************************************************************************)
BuildConfig ==
    GraphConfig(
        "Temperature" :> DiscretizationConfig(<<0, 30, 50, 70, 100>>,
                             <<"low", "medium", "high", "very_high">>)
        @@ "Vibration_Level" :> DiscretizationConfig(<<0, 3, 6, 10>>,
                             <<"low", "medium", "high">>),
        <<"Temperature", "Vibration_Level">>)

Reading(temperature, vibration) ==
    "Temperature" :> temperature @@ "Vibration_Level" :> vibration

\* the readings and failure flags of the records of the small batches: two
\* readings of the state (low, low), one of them with a failure, the state
\* (medium, low) without a failure, the state (high, medium) with one
RecordKinds ==
    { <<Reading(25, 1), FALSE>>, <<Reading(27, 1), TRUE>>,
      <<Reading(45, 1), FALSE>>, <<Reading(65, 4), TRUE>> }

RecordUniverse ==
    {HistoricalRecord(m, t, k[1], k[2]) :
        m \in {"MACHINE_1", "MACHINE_2"}, t \in 1..2, k \in RecordKinds}

\* the batches of at most MaxRecords records; the machine of the first
\* record is called MACHINE_1
SmallBatches ==
    {b \in UNION {[1..n -> RecordUniverse] : n \in 0..MaxRecords} :
        Len(b) > 0 => b[1].machine_id = "MACHINE_1"}

\* what machine i reads in the batch of the given pattern: machine 1 is in
\* (low, low); "same" puts the others in (medium, low), "alt" in
\* (medium, low) and (high, low) by turns, "mix" in (medium, low),
\* (medium, medium) and (low, low) by turns
PatternReading(pattern, i) ==
    IF i = 1 THEN Reading(25, 1)
    ELSE IF pattern = "same" THEN Reading(45, 1)
    ELSE IF pattern = "alt"
    THEN (IF i % 2 = 0 THEN Reading(45, 1) ELSE Reading(65, 1))
    ELSE (IF i % 3 = 2 THEN Reading(45, 1)
          ELSE IF i % 3 = 0 THEN Reading(45, 4) ELSE Reading(27, 1))

\* the batch of n machines of the pattern, one record each, the last a
\* failure
SimilarityBatch(n, pattern) ==
    [i \in 1..n |->
        HistoricalRecord("MACHINE_" \o ToString(i), 1,
                         PatternReading(pattern, i), i = n)]

\* the batches of three machines and more
SimilarityBatches ==
    {SimilarityBatch(n, pattern) :
        n \in 3..MaxSimMachines, pattern \in {"same", "alt", "mix"}}

\* the iteration orders of a call of build_graph on the records: it makes
\* one State object for each record at most, and iterates a set of them in
\* similarity mode only, where every order of the objects is an input
BuildHashOrders(records) ==
    IF has_temporal_data(records) THEN {Ascending(1..Len(records))}
    ELSE HashOrders(1..Len(records))

InitBuild ==
    /\ \E records \in SmallBatches \cup SimilarityBatches :
        call \in [records : {records}, graph_config : {BuildConfig},
                  hash_order : BuildHashOrders(records)]
    /\ pc = "build"
    /\ graph = EmptyGraph
    /\ loc = <<>>
    /\ ret = None

\* build_graph in temporal mode, from its first line to its return
BuildTemporal ==
    /\ pc = "build"
    /\ has_temporal_data(call.records)
    /\ LET acc == build_graph_nodes(call.records, call.graph_config)
       IN /\ acc.error = None
          /\ graph' = build_graph_temporal(call.records, call.graph_config, acc)
    /\ loc' = [has_temporal_data |-> has_temporal_data(call.records)]
    /\ ret' = graph'
    /\ pc' = "done"
    /\ UNCHANGED call

\* build_graph in similarity mode, lines 139-214: the nodes are made and
\* states_list = list(graph.nodes) is taken, in the order the set gives
BuildSimilarityBegin ==
    /\ pc = "build"
    /\ ~has_temporal_data(call.records)
    /\ LET acc == build_graph_nodes(call.records, call.graph_config)
       IN /\ acc.error = None
          /\ graph' = acc.graph
          /\ loc' = [has_temporal_data |-> has_temporal_data(call.records),
                     states_list |-> InHashOrder(acc.graph.nodes,
                                                 call.hash_order),
                     i |-> 1]
    /\ pc' = "build_similarity"
    /\ UNCHANGED <<call, ret>>

\* lines 217-226: one iteration of "for state1 in states_list"
BuildSimilarityStep ==
    /\ pc = "build_similarity"
    /\ loc.i <= Len(loc.states_list)
    /\ graph' = similarity_inner(loc.states_list, loc.states_list[loc.i], 1,
                                 [graph |-> graph, neighbors_found |-> 0])
    /\ loc' = [loc EXCEPT !.i = @ + 1]
    /\ UNCHANGED <<pc, call, ret>>

\* line 228: return graph
BuildSimilarityReturn ==
    /\ pc = "build_similarity"
    /\ loc.i > Len(loc.states_list)
    /\ ret' = graph
    /\ pc' = "done"
    /\ UNCHANGED <<graph, call, loc>>

NextBuild ==
    \/ BuildTemporal
    \/ BuildSimilarityBegin \/ BuildSimilarityStep \/ BuildSimilarityReturn

SpecBuild == InitBuild /\ [][NextBuild]_vars

(***************************************************************************)
(* Properties of build_graph, stated on the records of the call.           *)
(***************************************************************************)
NumRecords == Len(call.records)

\* the (machine_id, label tuple) pair of the i-th record of the call
RecordPair(i) ==
    <<call.records[i].machine_id,
      sensor_bins_of(call.graph_config,
          discretize_sensors(call.graph_config, call.records[i].sensors).result)>>

DistinctPairs == {RecordPair(i) : i \in 1..NumRecords}

\* the edges of a graph as a set of pairs of (machine_id, label tuple)
EdgePairs(g) ==
    UNION {{<<StateHash(s), StateHash(t)>> : t \in Range(g.edges[s])} :
              s \in DOMAIN g.edges}

\* C5: two State values built independently from the same (machine_id, label
\* tuple) are equal and hash equal, and the built graph has as many nodes as
\* the records give distinct (machine_id, label tuple) pairs
C5_EqualStatesCollapse ==
    pc = "done" =>
        /\ \A i \in 1..NumRecords, j \in 1..NumRecords :
              RecordPair(i) = RecordPair(j) =>
                  LET s1 == State(i, RecordPair(i)[1], RecordPair(i)[2])
                      s2 == State(NumRecords + j, RecordPair(j)[1],
                                  RecordPair(j)[2])
                  IN /\ StateEq(s1, s2)
                     /\ StateEq(s2, s1)
                     /\ StateHash(s1) = StateHash(s2)
        /\ Cardinality(graph.nodes) = Cardinality(DistinctPairs)

\* a built graph where two records gave one node and a third another
C5_Witness ==
    /\ pc = "done"
    /\ \E i \in 1..NumRecords, j \in 1..NumRecords :
          /\ i # j
          /\ RecordPair(i) = RecordPair(j)
          /\ call.records[i].sensors # call.records[j].sensors
    /\ Cardinality(graph.nodes) = 2
    /\ NumRecords = 3

\* all the records of the call, two or more, are of one machine
SingleMachine ==
    /\ NumRecords >= 2
    /\ \A i \in 1..NumRecords :
          call.records[i].machine_id = call.records[1].machine_id

\* C6: N >= 2 records of a single machine are built in temporal mode into at
\* most N nodes, and into exactly N-1 edges when they give N distinct states
C6_SingleMachineNodesAndEdges ==
    (pc = "done" /\ SingleMachine) =>
        /\ loc.has_temporal_data
        /\ Cardinality(graph.nodes) <= NumRecords
        /\ Cardinality(DistinctPairs) = NumRecords =>
               TotalEdges(graph) = NumRecords - 1

\* three records of one machine, not given in time order, built into three
\* nodes and two edges
C6_Witness ==
    /\ pc = "done"
    /\ SingleMachine
    /\ NumRecords = 3
    /\ Cardinality(DistinctPairs) = 3
    /\ call.records[1].time_key > call.records[3].time_key
    /\ Cardinality(graph.nodes) = 3
    /\ TotalEdges(graph) = 2

\* some machine has more than one record in the call
MoreThanOneRecord ==
    \E i \in 1..NumRecords, j \in 1..NumRecords :
        i # j /\ call.records[i].machine_id = call.records[j].machine_id

\* record i is before record j in their machine's sequence: ascending
\* time_key, equal keys in the order given
Before(i, j) ==
    /\ call.records[i].machine_id = call.records[j].machine_id
    /\ \/ call.records[i].time_key < call.records[j].time_key
       \/ call.records[i].time_key = call.records[j].time_key /\ i < j

Consecutive(i, j) ==
    /\ Before(i, j)
    /\ ~\E k \in 1..NumRecords : Before(i, k) /\ Before(k, j)

\* C7: the mode is temporal iff some machine has more than one record; in
\* temporal mode the edges are exactly the pairs of consecutive states of
\* each machine's time_key-ascending sequence, each once
C7_ModeAndTemporalEdges ==
    pc \in {"build_similarity", "done"} =>
        /\ loc.has_temporal_data <=> MoreThanOneRecord
        /\ (pc = "done" /\ loc.has_temporal_data) =>
              /\ EdgePairs(graph) =
                    {<<RecordPair(p[1]), RecordPair(p[2])>> :
                        p \in {q \in (1..NumRecords) \X (1..NumRecords) :
                                  Consecutive(q[1], q[2])}}
              /\ TotalEdges(graph) = Cardinality(EdgePairs(graph))

\* a temporal build where one machine has a single record and no edge, and
\* another has records given out of time order and a self-loop
C7_Witness ==
    /\ pc = "done"
    /\ loc.has_temporal_data
    /\ \E i \in 1..NumRecords :
          /\ \A j \in 1..NumRecords :
                call.records[j].machine_id = call.records[i].machine_id => j = i
          /\ \A e \in EdgePairs(graph) :
                e[1] # RecordPair(i) /\ e[2] # RecordPair(i)
    /\ \E i \in 1..NumRecords, j \in 1..NumRecords :
          /\ i < j
          /\ Before(j, i)
    /\ \E e \in EdgePairs(graph) : e[1] = e[2]

(***************************************************************************)
(* patterns.py: FailureSequence, WarningSign, extract_sequences and        *)
(* rank_warning_signs.  A float score is kept as its number of tenths.     *)
(***************************************************************************)
FailureSequence(sequence, frequency, machines, avg_time_to_failure) ==
    [sequence |-> sequence, frequency |-> frequency, machines |-> machines,
     avg_time_to_failure |-> avg_time_to_failure]

WarningSign(pattern, predictive_score, frequency, false_positive_rate) ==
    [pattern |-> pattern, predictive_score |-> predictive_score,
     frequency |-> frequency, false_positive_rate |-> false_positive_rate]

\* tuple.__eq__ on two tuples of States
TupleEq(t1, t2) ==
    /\ Len(t1) = Len(t2)
    /\ \A i \in 1..Len(t1) : StateEq(t1[i], t2[i])

\* tuple(path) in the place of tuple(path[:-1]): the failure state is kept
whole_path(path) == path

\* tuple(path[:-1])
path_prefix(path) == IF path = <<>> THEN <<>> ELSE Front(path)

\* the place of a key in sequence_counter (a dict keeps the order in which
\* its keys were first put), 0 when it is not there
CounterIndex(counter, key) ==
    LET hits == {i \in 1..Len(counter) : TupleEq(counter[i].key, key)}
    IN IF hits = {} THEN 0 ELSE CHOOSE i \in hits : TRUE

\* the machine_id of the state the path ends in
machine_of_last(path) == Last(path).machine_id

\* machine_id = path[0].machine_id
machine_of(path) == path[1].machine_id

RECURSIVE count_paths(_, _, _, _)
\* lines 101-112 for paths[i..]: counter holds, in the order of
\* sequence_counter, each key with its count and its sequence_to_machines set
count_paths(paths, min_pattern_length, i, counter) ==
    IF i > Len(paths) THEN counter
    ELSE LET path == paths[i]
             sequence == path_prefix(path)
             k == CounterIndex(counter, sequence)
             c1 == IF k = 0
                   THEN Append(counter, [key |-> sequence, count |-> 1,
                                         machines |-> {}])
                   ELSE [counter EXCEPT ![k].count = @ + 1]
             k1 == IF k = 0 THEN Len(c1) ELSE k
             c2 == IF path # <<>>
                   THEN [c1 EXCEPT ![k1].machines = @ \cup {machine_of(path)}]
                   ELSE c1
         IN IF Len(path) < min_pattern_length
            THEN count_paths(paths, min_pattern_length, i + 1, counter)
            ELSE count_paths(paths, min_pattern_length, i + 1, c2)

\* list.insert for an ascending sort by frequency (reverse=True left out)
InsertByFrequencyAscending(sorted, s) ==
    LET n == Cardinality({i \in 1..Len(sorted) :
                             sorted[i].frequency <= s.frequency})
    IN SubSeq(sorted, 1, n) \o <<s>> \o SubSeq(sorted, n + 1, Len(sorted))

\* list.insert keeping the list descending by frequency, after the elements
\* whose frequency is not smaller (sort(reverse=True) is stable)
InsertByFrequency(sorted, s) ==
    LET n == Cardinality({i \in 1..Len(sorted) :
                             sorted[i].frequency >= s.frequency})
    IN SubSeq(sorted, 1, n) \o <<s>> \o SubSeq(sorted, n + 1, Len(sorted))

RECURSIVE sort_by_frequency(_, _, _)
\* sequences.sort(key=lambda s: s.frequency, reverse=True)
sort_by_frequency(s, i, sorted) ==
    IF i > Len(s) THEN sorted
    ELSE sort_by_frequency(s, i + 1, InsertByFrequency(sorted, s[i]))

\* extract_sequences
extract_sequences(paths, min_pattern_length) ==
    LET counter == count_paths(paths, min_pattern_length, 1, <<>>)
        sequences == [k \in 1..Len(counter) |->
                         FailureSequence(counter[k].key, counter[k].count,
                                         counter[k].machines, 0)]
    IN sort_by_frequency(sequences, 1, <<>>)

\* the pattern text of a sequence, as its variable parts
pattern_of(seq) ==
    IF Len(seq.sequence) > 0
    THEN <<"State transition", seq.sequence[1].sensor_bins,
           Last(seq.sequence).sensor_bins, Len(seq.sequence)>>
    ELSE <<"Empty sequence">>

\* seq.frequency / 10.0 without the cap, in tenths
predictive_score_uncapped(frequency) == frequency

\* min(seq.frequency / 10.0, 1.0), in tenths
predictive_score(frequency) == IF 10 < frequency THEN 10 ELSE frequency

\* list.insert for a sort by frequency in the place of predictive_score
InsertByScoreOfFrequency(sorted, w) ==
    LET n == Cardinality({i \in 1..Len(sorted) :
                             sorted[i].frequency >= w.frequency})
    IN SubSeq(sorted, 1, n) \o <<w>> \o SubSeq(sorted, n + 1, Len(sorted))

\* list.insert keeping the list descending by predictive_score, after the
\* elements whose score is not smaller
InsertByScore(sorted, w) ==
    LET n == Cardinality({i \in 1..Len(sorted) :
                             sorted[i].predictive_score >= w.predictive_score})
    IN SubSeq(sorted, 1, n) \o <<w>> \o SubSeq(sorted, n + 1, Len(sorted))

RECURSIVE sort_by_score(_, _, _)
\* warning_signs.sort(key=lambda w: w.predictive_score, reverse=True)
sort_by_score(s, i, sorted) ==
    IF i > Len(s) THEN sorted
    ELSE sort_by_score(s, i + 1, InsertByScore(sorted, s[i]))

\* rank_warning_signs
rank_warning_signs(sequences) ==
    sort_by_score([k \in 1..Len(sequences) |->
                      WarningSign(pattern_of(sequences[k]),
                                  predictive_score(sequences[k].frequency),
                                  sequences[k].frequency, 0)],
                  1, <<>>)

(***************************************************************************)
(* SpecPatterns: extract_sequences on a list of paths and then             *)
(* rank_warning_signs on what it returned, or rank_warning_signs on        *)
(* sequences made by hand.  loc.sequences is the list rank_warning_signs   *)
(* is given, ret its result.                                               *)
(***************************************************************************)
state_a == State(1, "MACHINE_001", <<"low", "low">>)

state_b == State(2, "MACHINE_001", <<"medium", "low">>)

state_c == State(3, "MACHINE_001", <<"high", "high">>)

\* a second object with the value of state_a
state_a2 == State(4, "MACHINE_001", <<"low", "low">>)

state_d == State(5, "MACHINE_002", <<"low", "low">>)

\* the last path starts on one machine and goes on through states of another,
\* as the paths of a graph built in similarity mode do
PathUniverse ==
    { <<>>, <<state_a>>, <<state_d>>, <<state_a, state_c>>,
      <<state_a2, state_c>>, <<state_a, state_b, state_c>>,
      <<state_c, state_c>>, <<state_d, state_a, state_c>> }

\* SearchParams.min_pattern_length is 3 by default; the tests pass 2 and 3
MinPatternLengths == {0, 2, 3}

ExtractCalls ==
    [op : {"extract_sequences"},
     paths : UNION {[1..n -> PathUniverse] : n \in 0..MaxPaths},
     min_pattern_length : MinPatternLengths]

SequenceUniverse ==
    {FailureSequence(q, f, {"MACHINE_001"}, 0) :
        q \in {<<>>, <<state_a, state_b>>, <<state_a, state_c>>},
        f \in {0, 5, 10, 15}}

RankCalls ==
    [op : {"rank_warning_signs"},
     sequences : UNION {[1..n -> SequenceUniverse] : n \in 0..MaxSequences}]

InitPatterns ==
    /\ call \in ExtractCalls \cup RankCalls
    /\ pc = call.op
    /\ loc = IF call.op = "rank_warning_signs"
             THEN [sequences |-> call.sequences] ELSE <<>>
    /\ graph = EmptyGraph
    /\ ret = None

\* extract_sequences, from its first line to its return
ExtractSequences ==
    /\ pc = "extract_sequences"
    /\ loc' = [sequences |->
                  extract_sequences(call.paths, call.min_pattern_length)]
    /\ pc' = "rank_warning_signs"
    /\ UNCHANGED <<graph, call, ret>>

\* rank_warning_signs, from its first line to its return
RankWarningSigns ==
    /\ pc = "rank_warning_signs"
    /\ ret' = rank_warning_signs(loc.sequences)
    /\ pc' = "done"
    /\ UNCHANGED <<graph, call, loc>>

NextPatterns == ExtractSequences \/ RankWarningSigns

SpecPatterns == InitPatterns /\ [][NextPatterns]_vars

\* extract_sequences has returned loc.sequences for call.paths
Extracted ==
    /\ call.op = "extract_sequences"
    /\ pc \in {"rank_warning_signs", "done"}

\* the paths extract_sequences does not ignore
Remaining ==
    {i \in 1..Len(call.paths) : Len(call.paths[i]) >= call.min_pattern_length}

\* a path without its final state
Prefix(path) == SubSeq(path, 1, Len(path) - 1)

\* the remaining paths whose prefix is the sequence q
PathsOf(q) == {i \in Remaining : TupleEq(Prefix(call.paths[i]), q)}

\* C11: extract_sequences ignores the paths shorter than min_length and
\* returns one FailureSequence per distinct prefix path[:-1] of the others
\* (compared by value), its frequency the number of those paths with that
\* prefix; a sequence has one state fewer than its paths (the empty path
\* has the empty sequence), and the final state of a path is the last
\* element of its sequence only when the path ends with that state twice
C11_OneSequencePerPrefix ==
    Extracted =>
        /\ \A k \in 1..Len(loc.sequences) :
              /\ PathsOf(loc.sequences[k].sequence) # {}
              /\ loc.sequences[k].frequency =
                     Cardinality(PathsOf(loc.sequences[k].sequence))
              /\ \A i \in PathsOf(loc.sequences[k].sequence) :
                     call.paths[i] # <<>> =>
                         /\ Len(loc.sequences[k].sequence) =
                                Len(call.paths[i]) - 1
                         /\ (/\ loc.sequences[k].sequence # <<>>
                             /\ StateEq(Last(loc.sequences[k].sequence),
                                        Last(call.paths[i]))) =>
                                StateEq(call.paths[i][Len(call.paths[i]) - 1],
                                        Last(call.paths[i]))
        /\ \A i \in Remaining :
              \E k \in 1..Len(loc.sequences) :
                  TupleEq(loc.sequences[k].sequence, Prefix(call.paths[i]))
        /\ \A k \in 1..Len(loc.sequences), l \in 1..Len(loc.sequences) :
              k # l => ~TupleEq(loc.sequences[k].sequence,
                                loc.sequences[l].sequence)

\* C11 as the claim has it: one FailureSequence per distinct prefix, and the
\* final state of a path is never the last element of its sequence.  A path
\* that ends with the same state twice, [C, C], has the sequence [C]
C11_FinalStateNeverLast ==
    /\ C11_OneSequencePerPrefix
    /\ Extracted =>
          \A k \in 1..Len(loc.sequences) :
              \A i \in PathsOf(loc.sequences[k].sequence) :
                  loc.sequences[k].sequence # <<>> =>
                      ~StateEq(Last(loc.sequences[k].sequence),
                               Last(call.paths[i]))

\* [[A,B,C],[A,B,C],[A,B,C],[A,C]] with min_length 2 gave [A,B] with
\* frequency 3 and [A] with frequency 1
C11_Witness ==
    /\ Extracted
    /\ call.min_pattern_length = 2
    /\ call.paths = << <<state_a, state_b, state_c>>,
                       <<state_a, state_b, state_c>>,
                       <<state_a, state_b, state_c>>,
                       <<state_a, state_c>> >>
    /\ Len(loc.sequences) = 2
    /\ loc.sequences[1].sequence = <<state_a, state_b>>
    /\ loc.sequences[1].frequency = 3
    /\ loc.sequences[2].sequence = <<state_a>>
    /\ loc.sequences[2].frequency = 1

\* the place in call.paths of the first remaining path with the prefix q
FirstOccurrence(q) ==
    CHOOSE i \in PathsOf(q) : \A j \in PathsOf(q) : i <= j

\* C12: the list extract_sequences returns is sorted by non-increasing
\* frequency, sequences of equal frequency in the order of their first
\* occurrence in the input
C12_SortedByFrequency ==
    Extracted =>
        \A k \in 1..Len(loc.sequences), l \in 1..Len(loc.sequences) :
            k < l =>
                /\ loc.sequences[k].frequency >= loc.sequences[l].frequency
                /\ loc.sequences[k].frequency = loc.sequences[l].frequency =>
                       FirstOccurrence(loc.sequences[k].sequence)
                           < FirstOccurrence(loc.sequences[l].sequence)

\* a sequence first seen last in the input is returned first for its
\* frequency, before two sequences of equal frequency in input order
C12_Witness ==
    /\ Extracted
    /\ Len(loc.sequences) = 3
    /\ loc.sequences[1].frequency > loc.sequences[2].frequency
    /\ loc.sequences[2].frequency = loc.sequences[3].frequency
    /\ FirstOccurrence(loc.sequences[1].sequence)
           > FirstOccurrence(loc.sequences[3].sequence)

\* min(frequency / 10, 1.0) in tenths
ScoreInTenths(frequency) == IF frequency >= 10 THEN 10 ELSE frequency

\* C13: rank_warning_signs returns exactly one WarningSign per input
\* sequence, with the same frequency, predictive_score = min(frequency / 10,
\* 1.0), which is in [0, 1], and false_positive_rate = 0
C13_OneWarningSignPerSequence ==
    pc = "done" =>
        /\ Len(ret) = Len(loc.sequences)
        /\ \E f \in [1..Len(ret) -> 1..Len(ret)] :
              /\ \A k \in 1..Len(ret), l \in 1..Len(ret) : k # l => f[k] # f[l]
              /\ \A k \in 1..Len(ret) :
                    /\ ret[f[k]].frequency = loc.sequences[k].frequency
                    /\ ret[f[k]].pattern = pattern_of(loc.sequences[k])
        /\ \A k \in 1..Len(ret) :
              /\ ret[k].predictive_score = ScoreInTenths(ret[k].frequency)
              /\ ret[k].predictive_score >= 0
              /\ ret[k].predictive_score <= 10
              /\ ret[k].false_positive_rate = 0

\* sequences of frequency 5 and 15 were ranked with the scores 0.5 and 1.0
C13_Witness ==
    /\ pc = "done"
    /\ call.op = "rank_warning_signs"
    /\ \E k \in 1..Len(ret) :
          ret[k].frequency = 5 /\ ret[k].predictive_score = 5
    /\ \E k \in 1..Len(ret) :
          ret[k].frequency = 15 /\ ret[k].predictive_score = 10

\* the warning sign rank_warning_signs makes of a sequence, less its score
SignOf(seq) == <<pattern_of(seq), seq.frequency>>

\* C14: the list rank_warning_signs returns is sorted by non-increasing
\* predictive_score, and the warning signs of one score are those of the
\* input sequences of that score, in input order
C14_SortedByScore ==
    pc = "done" =>
        /\ \A k \in 1..Len(ret), l \in 1..Len(ret) :
              k < l => ret[k].predictive_score >= ret[l].predictive_score
        /\ \A v \in 0..10 :
              LET signs == SelectSeq(ret, LAMBDA w : w.predictive_score = v)
                  seqs == SelectSeq(loc.sequences,
                              LAMBDA q : ScoreInTenths(q.frequency) = v)
              IN /\ Len(signs) = Len(seqs)
                 /\ \A k \in 1..Len(signs) :
                       <<signs[k].pattern, signs[k].frequency>> = SignOf(seqs[k])

\* sequences of frequency 5, 15 and 10, in that order, were ranked 15, 10, 5:
\* the two of score 1.0 keep their input order
C14_Witness ==
    /\ pc = "done"
    /\ call.op = "rank_warning_signs"
    /\ Len(loc.sequences) = 3
    /\ loc.sequences[1].frequency = 5
    /\ loc.sequences[2].frequency = 15
    /\ loc.sequences[3].frequency = 10
    /\ ret[1].frequency = 15
    /\ ret[2].frequency = 10
    /\ ret[3].frequency = 5

\* C30: every FailureSequence extract_sequences builds from paths of at
\* least 2 states (its sequence is not empty) has one machine in machines,
\* the machine_id of the first state of its sequence, also when the paths
\* grouped under it go through states of other machines
C30_MachinesIsFirstStateMachine ==
    Extracted =>
        \A k \in 1..Len(loc.sequences) :
            Len(loc.sequences[k].sequence) >= 1 =>
                loc.sequences[k].machines =
                    {loc.sequences[k].sequence[1].machine_id}

\* two paths that start on MACHINE_002 and go on through a state of
\* MACHINE_001 were grouped in one sequence, beside a sequence of MACHINE_001
C30_Witness ==
    /\ Extracted
    /\ \E k \in 1..Len(loc.sequences) :
          /\ loc.sequences[k].frequency = 2
          /\ loc.sequences[k].machines = {"MACHINE_002"}
          /\ \E j \in 1..Len(loc.sequences[k].sequence) :
                loc.sequences[k].sequence[j].machine_id = "MACHINE_001"
    /\ \E k \in 1..Len(loc.sequences) :
          loc.sequences[k].machines = {"MACHINE_001"}

(***************************************************************************)
(* SpecPipeline: the stage functions called directly, one after the other, *)
(* by a caller that holds three records of one machine: build_graph, then  *)
(* one search from the state of one of the records (bfs, dfs, a_star) or   *)
(* discover_failure_sequences, then extract_sequences on what the search   *)
(* returned and rank_warning_signs.  The records are the caller's list, in *)
(* any order; run_module2 is another caller, which reads its records from  *)
(* a file (sorted by the loader), samples them when there are more than    *)
(* 1000 and always calls discover_failure_sequences; it is not modelled.   *)
(* call holds the records and the arguments of the stages; loc, once the   *)
(* search has returned, its paths and the extracted sequences.             *)
(***************************************************************************)
\* the kinds of SpecBuild's records and a second failing state
PipelineKinds == RecordKinds \cup { <<Reading(85, 7), TRUE>> }

\* the time keys of the three records: in order, out of order, with a tie
PipelineTimeKeys == { <<1, 2, 3>>, <<3, 1, 2>>, <<1, 1, 2>> }

PipelineBatches ==
    {[i \in 1..3 |-> HistoricalRecord("MACHINE_1", t[i], k[i][1], k[i][2])] :
        t \in PipelineTimeKeys,
        k \in [1..3 -> PipelineKinds]}

PipelineCalls ==
    [records : PipelineBatches, graph_config : {BuildConfig},
     algo : {"bfs", "dfs"}, start : 1..3, max_depth : {2, DefaultMaxDepth},
     max_paths : {10}, heuristic : {None}, weight : {1}]
    \cup
    [records : PipelineBatches, graph_config : {BuildConfig},
     algo : {"a_star"}, start : 1..3, max_depth : {2, DefaultMaxDepth},
     max_paths : {None}, heuristic : {"time_to_failure", "sensor_distance"},
     weight : {1}]
    \cup
    [records : PipelineBatches, graph_config : {BuildConfig},
     algo : {"discover"}, max_depth : {2, DefaultMaxDepth},
     hash_order : HashOrders(1..3)]

InitPipeline ==
    /\ call \in PipelineCalls
    /\ pc = "pipe_build"
    /\ graph = EmptyGraph
    /\ loc = <<>>
    /\ ret = None

\* the State object the graph holds for a record
state_of_record(g, graph_config, record) ==
    Existing(State(0, record.machine_id,
                   sensor_bins_of(graph_config,
                       discretize_sensors(graph_config, record.sensors).result)),
             g.nodes)

\* build_graph on the records, then the call of the search
PipeBuild ==
    /\ pc = "pipe_build"
    /\ has_temporal_data(call.records)
    /\ LET acc == build_graph_nodes(call.records, call.graph_config)
           g == build_graph_temporal(call.records, call.graph_config, acc)
       IN /\ acc.error = None
          /\ graph' = g
          /\ IF call.algo = "discover"
             THEN /\ call' = call
                  /\ loc' = [sequences |-> <<>>]
             ELSE /\ call' = [k \in DOMAIN call \cup {"start_state"} |->
                                IF k = "start_state"
                                THEN state_of_record(g, call.graph_config,
                                         call.records[call.start])
                                ELSE call[k]]
                  /\ loc' = search_init(call')
    /\ pc' = call.algo
    /\ UNCHANGED ret

\* the search has returned: extract_sequences on its paths
PipeExtract ==
    /\ pc = "done"
    /\ \E min_pattern_length \in MinPatternLengths :
        LET paths == IF call.algo = "a_star"
                     THEN (IF ret = None THEN <<>> ELSE <<ret>>)
                     ELSE ret
        IN loc' = [paths |-> paths,
                   min_pattern_length |-> min_pattern_length,
                   sequences |-> extract_sequences(paths, min_pattern_length)]
    /\ pc' = "pipe_extracted"
    /\ UNCHANGED <<graph, call, ret>>

\* rank_warning_signs on the extracted sequences
PipeRank ==
    /\ pc = "pipe_extracted"
    /\ ret' = rank_warning_signs(loc.sequences)
    /\ pc' = "pipe_done"
    /\ UNCHANGED <<graph, call, loc>>

NextPipeline ==
    \/ PipeBuild
    \/ BfsStep \/ BfsReturn
    \/ DfsStep \/ DfsReturn
    \/ AStarStep \/ AStarFound \/ AStarExhausted
    \/ DiscoverStartStates \/ DiscoverFallback \/ DiscoverSearch
    \/ DiscoverReturn
    \/ PipeExtract \/ PipeRank

SpecPipeline == InitPipeline /\ [][NextPipeline]_vars

\* the records are three chronological records of one machine that give
\* three distinct states, the third alone flagged as failure, and the search
\* starts from the state of the first with room for a path of three states
EndToEndScenario ==
    /\ call.records[1].time_key < call.records[2].time_key
    /\ call.records[2].time_key < call.records[3].time_key
    /\ Cardinality(DistinctPairs) = 3
    /\ ~call.records[1].failure_label
    /\ ~call.records[2].failure_label
    /\ call.records[3].failure_label
    /\ call.algo \in {"bfs", "a_star"}
    /\ call.start = 1
    /\ call.max_depth >= 3

\* a path as the (machine_id, label tuple) pairs of its states
PathPairs(path) == [i \in 1..Len(path) |-> StateHash(path[i])]

\* C15: S1 -> S2 -> S3(failure) gives a graph of 3 nodes, 2 edges and 1
\* failure state; bfs and a_star from S1 return the path [S1,S2,S3];
\* extract_sequences with min_length 2 gives the one sequence [S1,S2] of
\* frequency 1 and rank_warning_signs one warning sign of score 0.1
C15_EndToEnd ==
    (EndToEndScenario /\ pc # "pipe_build") =>
        /\ Cardinality(graph.nodes) = 3
        /\ TotalEdges(graph) = 2
        /\ Cardinality(graph.failure_states) = 1
        /\ Returned("bfs") =>
              /\ Len(ret) = 1
              /\ PathPairs(ret[1]) = <<RecordPair(1), RecordPair(2), RecordPair(3)>>
        /\ Returned("a_star") =>
              /\ ret # None
              /\ PathPairs(ret) = <<RecordPair(1), RecordPair(2), RecordPair(3)>>
        /\ (pc \in {"pipe_extracted", "pipe_done"}
                /\ loc.min_pattern_length = 2) =>
              /\ Len(loc.sequences) = 1
              /\ PathPairs(loc.sequences[1].sequence) =
                     <<RecordPair(1), RecordPair(2)>>
              /\ loc.sequences[1].frequency = 1
        /\ (pc = "pipe_done" /\ loc.min_pattern_length = 2) =>
              /\ Len(ret) = 1
              /\ ret[1].predictive_score = 1

\* the scenario has run to its end from an a_star search
C15_Witness ==
    /\ EndToEndScenario
    /\ call.algo = "a_star"
    /\ pc = "pipe_done"
    /\ loc.min_pattern_length = 2
    /\ Len(loc.paths) = 1
    /\ Len(loc.paths[1]) = 3
    /\ Len(ret) = 1
    /\ ret[1].frequency = 1

\* C29: every path discover_failure_sequences returns starts at a state that
\* is not a failure state, ends at a failure state, has no failure state
\* before its last, and has at least 2 and at most min(max_depth, 10) states,
\* with start states found next to the failure states and with start states
\* sampled from the non-failure states
C29_DiscoveredPathsShape ==
    pc = "done" =>
        \A i \in 1..Len(ret) :
            /\ Len(ret[i]) >= 2
            /\ Len(ret[i]) <= Min(call.max_depth, 10)
            /\ ~is_failure_state(graph, ret[i][1])
            /\ is_failure_state(graph, Last(ret[i]))
            /\ \A j \in 1..(Len(ret[i]) - 1) :
                  ~is_failure_state(graph, ret[i][j])

\* the start states were sampled, and a path of as many states as max_depth
\* allows was returned
C29_Witness ==
    /\ pc = "done"
    /\ loc.fallback
    /\ \E i \in 1..Len(ret) :
          /\ Len(ret[i]) = Min(call.max_depth, 10)
          /\ Len(ret[i]) >= 3

\* C22: in the graph build_graph returns a state is a failure state if and
\* only if a record with the failure flag set discretizes to it (same
\* machine, same label tuple); non-failure records of the state change
\* nothing
C22_FailureMarkIffFailureRecord ==
    (pc = "done" /\ call.graph_config = BuildConfig) =>
        /\ graph.failure_states \subseteq graph.nodes
        /\ \A node \in graph.nodes :
              node \in graph.failure_states <=>
                 \E i \in 1..NumRecords :
                    /\ RecordPair(i) = StateHash(node)
                    /\ call.records[i].failure_label

\* a state with a failure record and a later record without failure is
\* marked, and another state of the graph is not
C22_Witness ==
    /\ pc = "done"
    /\ call.graph_config = BuildConfig
    /\ \E i \in 1..NumRecords, j \in 1..NumRecords :
          /\ RecordPair(i) = RecordPair(j)
          /\ call.records[i].failure_label
          /\ ~call.records[j].failure_label
          /\ call.records[i].time_key < call.records[j].time_key
          /\ \E node \in graph.failure_states : StateHash(node) = RecordPair(i)
    /\ graph.failure_states # graph.nodes

(***************************************************************************)
(* SpecBin: DiscretizationConfig.get_bin called on a scheme for a value    *)
(* and then for a second value that is not smaller.  The schemes have one  *)
(* to three boundaries in 0..MaxBoundary, in any order, and up to three    *)
(* labels; loc holds the results of the calls made.                        *)
(***************************************************************************)
BinLabels == <<"low", "medium", "high">>

BinSchemes ==
    {DiscretizationConfig(bins, SubSeq(BinLabels, 1, n)) :
        bins \in UNION {[1..m -> 0..MaxBoundary] : m \in 1..3},
        n \in 0..3}

BinCalls ==
    {c \in [config : BinSchemes, v1 : (-1)..(MaxBoundary + 1),
            v2 : (-1)..(MaxBoundary + 1)] : c.v1 <= c.v2}

InitBin ==
    /\ call \in BinCalls
    /\ pc = "get_bin"
    /\ loc = <<>>
    /\ graph = EmptyGraph
    /\ ret = None

\* config.get_bin(v1)
GetBinFirst ==
    /\ pc = "get_bin"
    /\ loc = <<>>
    /\ loc' = <<get_bin(call.config, call.v1)>>
    /\ UNCHANGED <<pc, graph, call, ret>>

\* config.get_bin(v2)
GetBinSecond ==
    /\ pc = "get_bin"
    /\ Len(loc) = 1
    /\ loc' = Append(loc, get_bin(call.config, call.v2))
    /\ ret' = get_bin(call.config, call.v2)
    /\ pc' = "done"
    /\ UNCHANGED <<graph, call>>

NextBin == GetBinFirst \/ GetBinSecond

SpecBin == InitBin /\ [][NextBin]_vars

\* strictly increasing bins and len(labels) == len(bins) - 1
IncreasingScheme(config) ==
    /\ \A i \in 1..(Len(config.bins) - 1) : config.bins[i] < config.bins[i + 1]
    /\ Len(config.labels) = Len(config.bins) - 1

\* an increasing scheme of two boundaries or more: it has an interval and a
\* label
WellFormedScheme(config) ==
    /\ Len(config.bins) >= 2
    /\ IncreasingScheme(config)

\* the index of the label a well-formed scheme gives a value v >= bins[0]:
\* that of the interval that holds v, the last one from the last boundary on
LabelIndex(config, v) ==
    IF v >= Last(config.bins) THEN Len(config.labels)
    ELSE CHOOSE i \in 1..Len(config.labels) :
             config.bins[i] <= v /\ v < config.bins[i + 1]

\* both calls returned the label of the one interval that holds their value,
\* or the last label for a value at or above the last boundary, and the
\* label of v1 has no greater index than the label of v2
IntervalLabels ==
    /\ loc[1].error = None
    /\ loc[2].error = None
    /\ Cardinality({i \in 1..Len(call.config.labels) :
           /\ call.config.bins[i] <= call.v1
           /\ call.v1 < call.config.bins[i + 1]})
         = IF call.v1 >= Last(call.config.bins) THEN 0 ELSE 1
    /\ loc[1].label = call.config.labels[LabelIndex(call.config, call.v1)]
    /\ loc[2].label = call.config.labels[LabelIndex(call.config, call.v2)]
    /\ \A i \in 1..Len(call.config.labels), j \in 1..Len(call.config.labels) :
          (loc[1].label = call.config.labels[i]
              /\ loc[2].label = call.config.labels[j]) => i <= j

\* C16 as the claim has it: on every scheme with strictly increasing bins and
\* len(labels) == len(bins) - 1, get_bin(v) for v >= bins[0] returns the
\* label of the one interval that holds v, or the last label when v is at or
\* above the last boundary.  A scheme of one boundary and no label is such a
\* scheme, and there get_bin raises IndexError at labels[-1]
C16_EveryIncreasingScheme ==
    (pc = "done" /\ IncreasingScheme(call.config)
        /\ call.v1 >= call.config.bins[1]) => IntervalLabels

\* C16: on a scheme with two boundaries or more, strictly increasing bins and
\* len(labels) == len(bins) - 1, get_bin(v) for v >= bins[0] returns the
\* label of the one interval that holds v, or the last label when v is at or
\* above the last boundary; and for v1 <= v2 the label returned for v1 has no
\* greater index than the label returned for v2
C16_GetBinIntervalAndMonotone ==
    (pc = "done" /\ WellFormedScheme(call.config)
        /\ call.v1 >= call.config.bins[1]) => IntervalLabels

\* a value on an inner boundary got the label of the interval that starts
\* there, and a value above the last boundary the last label
C16_Witness ==
    /\ pc = "done"
    /\ WellFormedScheme(call.config)
    /\ Len(call.config.bins) = 3
    /\ call.v1 = call.config.bins[2]
    /\ loc[1].label = "medium"
    /\ call.v2 > call.config.bins[3]
    /\ loc[2].label = "medium"

(***************************************************************************)
(* SpecConfig: a configuration file is loaded with GraphConfig.from_json   *)
(* and build_graph is called with the result on a batch of at most         *)
(* MaxConfigRecords records.  The files are the configuration of the graph *)
(* tests and three malformed variants of it; the records have readings in  *)
(* range, below the lowest boundary, and without one of the sensors.       *)
(* call.graph_config is None until the file is loaded.                     *)
(***************************************************************************)
\* the content of a configuration file
ConfigFile(discretization, state_components) ==
    [discretization |-> discretization, state_components |-> state_components]

TemperatureBins == <<0, 30, 50, 70, 100>>

VibrationBins == <<0, 3, 6, 10>>

ConfigFiles ==
    { \* the configuration of the graph tests
      ConfigFile(
        "Temperature" :> [bins |-> TemperatureBins,
                          labels |-> <<"low", "medium", "high", "very_high">>]
        @@ "Vibration_Level" :> [bins |-> VibrationBins,
                                 labels |-> <<"low", "medium", "high">>],
        <<"Temperature", "Vibration_Level">>),
      \* two labels for the four intervals of Temperature
      ConfigFile(
        "Temperature" :> [bins |-> TemperatureBins,
                          labels |-> <<"low", "medium">>]
        @@ "Vibration_Level" :> [bins |-> VibrationBins,
                                 labels |-> <<"low", "medium", "high">>],
        <<"Temperature", "Vibration_Level">>),
      \* four labels for the three intervals of Vibration_Level
      ConfigFile(
        "Temperature" :> [bins |-> TemperatureBins,
                          labels |-> <<"low", "medium", "high", "very_high">>]
        @@ "Vibration_Level" :> [bins |-> VibrationBins,
                                 labels |-> <<"low", "medium", "high", "extreme">>],
        <<"Temperature", "Vibration_Level">>),
      \* the state component Pressure has no binning scheme
      ConfigFile(
        "Temperature" :> [bins |-> TemperatureBins,
                          labels |-> <<"low", "medium", "high", "very_high">>]
        @@ "Vibration_Level" :> [bins |-> VibrationBins,
                                 labels |-> <<"low", "medium", "high">>],
        <<"Temperature", "Vibration_Level", "Pressure">>) }

\* readings in range, below the lowest boundary of Temperature or of
\* Vibration_Level, and without Vibration_Level; each with a failure flag
ConfigRecordKinds ==
    { <<Reading(25, 1), FALSE>>, <<Reading(45, 1), FALSE>>,
      <<Reading(85, 1), TRUE>>, <<Reading(-5, 1), TRUE>>,
      <<Reading(25, -1), FALSE>>, <<"Temperature" :> 25, FALSE>> }

ConfigRecordUniverse ==
    {HistoricalRecord(m, 1, k[1], k[2]) :
        m \in {"MACHINE_1", "MACHINE_2"}, k \in ConfigRecordKinds}

ConfigBatches ==
    UNION {[1..n -> ConfigRecordUniverse] : n \in 0..MaxConfigRecords}

InitConfig ==
    /\ \E records \in ConfigBatches :
        call \in [data : ConfigFiles, records : {records},
                  graph_config : {None},
                  hash_order : BuildHashOrders(records)]
    /\ pc = "load"
    /\ graph = EmptyGraph
    /\ loc = <<>>
    /\ ret = None

\* graph_config = GraphConfig.from_json(path)
FromJson ==
    /\ pc = "load"
    /\ call' = [call EXCEPT !.graph_config = from_json(call.data)]
    /\ pc' = "build"
    /\ UNCHANGED <<graph, loc, ret>>

\* build_graph left by an exception of discretize_sensors (line 161): the
\* graph holds the nodes made for the records before
BuildRaises ==
    /\ pc = "build"
    /\ LET acc == build_graph_nodes(call.records, call.graph_config)
       IN /\ acc.error # None
          /\ graph' = acc.graph
          /\ ret' = [error |-> acc.error]
    /\ pc' = "raised"
    /\ UNCHANGED <<call, loc>>

NextConfig ==
    \/ FromJson
    \/ BuildTemporal
    \/ BuildSimilarityBegin \/ BuildSimilarityStep \/ BuildSimilarityReturn
    \/ BuildRaises

SpecConfig == InitConfig /\ [][NextConfig]_vars

\* every scheme has strictly increasing bins and a label per interval, and
\* every state component has a scheme
WellFormedConfig(graph_config) ==
    /\ \A n \in DOMAIN graph_config.discretization :
          WellFormedScheme(graph_config.discretization[n])
    /\ \A i \in 1..Len(graph_config.state_components) :
          graph_config.state_components[i] \in DOMAIN graph_config.discretization

\* the sensor is one the record has, with a value below the lowest boundary
BelowRange(graph_config, sensors, n) ==
    /\ n \in DOMAIN sensors
    /\ sensors[n] < graph_config.discretization[n].bins[1]

\* the labels of a record under a well-formed configuration: the label of
\* the interval for a sensor read in range, "unknown" for one read below
\* the lowest boundary or not read
ExpectedBins(graph_config, sensors) ==
    [i \in 1..Len(graph_config.state_components) |->
        LET n == graph_config.state_components[i]
            scheme == graph_config.discretization[n]
        IN IF n \in DOMAIN sensors /\ ~BelowRange(graph_config, sensors, n)
           THEN scheme.labels[LabelIndex(scheme, sensors[n])]
           ELSE "unknown"]

BuildOver == pc \in {"build_similarity", "done", "raised"}

\* C17: under a well-formed configuration get_bin fails with ValueError on a
\* value below the lowest boundary of its scheme, discretize_sensors leaves
\* that sensor out of its result without failing, and build_graph completes
\* (no exception leaves it) with a node for every record whose label is
\* "unknown" at the position of each state component read below range or not
\* read at all
C17_RangeErrorNeverEscapes ==
    (BuildOver /\ WellFormedConfig(call.graph_config)) =>
        /\ pc # "raised"
        /\ \A i \in 1..Len(call.records) :
              LET sensors == call.records[i].sensors
                  discretized == discretize_sensors(call.graph_config, sensors)
              IN /\ discretized.error = None
                 /\ \A n \in DOMAIN call.graph_config.discretization :
                       BelowRange(call.graph_config, sensors, n) =>
                          /\ get_bin(call.graph_config.discretization[n],
                                     sensors[n]).error = "ValueError"
                          /\ n \notin DOMAIN discretized.result
                 /\ \E node \in graph.nodes :
                       /\ node.machine_id = call.records[i].machine_id
                       /\ node.sensor_bins =
                              ExpectedBins(call.graph_config, sensors)

\* build_graph returned a graph for a batch with a Temperature below range
\* and a record without Vibration_Level: their nodes are (unknown, low) and
\* (low, unknown)
C17_Witness ==
    /\ pc = "done"
    /\ WellFormedConfig(call.graph_config)
    /\ \E i \in 1..Len(call.records) :
          BelowRange(call.graph_config, call.records[i].sensors, "Temperature")
    /\ \E i \in 1..Len(call.records) :
          "Vibration_Level" \notin DOMAIN call.records[i].sensors
    /\ \E node \in graph.nodes : node.sensor_bins = <<"unknown", "low">>
    /\ \E node \in graph.nodes : node.sensor_bins = <<"low", "unknown">>

\* a sensor whose number of labels is not len(bins) - 1, or a state
\* component without a binning scheme
MalformedConfig(data) ==
    \/ \E n \in DOMAIN data.discretization :
          Len(data.discretization[n].labels)
              # Len(data.discretization[n].bins) - 1
    \/ \E i \in 1..Len(data.state_components) :
          data.state_components[i] \notin DOMAIN data.discretization

\* C18: a malformed configuration is rejected with an error raised to the
\* caller before any graph node is created: no node is ever made from it and
\* build_graph never gets past its node loop, let alone returns a graph
C18_MalformedConfigRejected ==
    MalformedConfig(call.data) =>
        /\ graph.nodes = {}
        /\ pc \in {"load", "build", "raised"}

====
